---------------------------- MODULE Spec2Model ----------------------------
(***************************************************************************)
(* velocity: per-method compressed-trie router with middleware chains.     *)
(*                                                                         *)
(* Strings are sequences of one-character strings.  Go's 0-based indexing  *)
(* is kept through At and Slice.  The trie lives in a heap: `nodes` holds  *)
(* the node structs, `maps` the `children` maps (Go maps are references,   *)
(* so two node structs may share one map).  Pointer nil is Nil.            *)
(***************************************************************************)
EXTENDS Integers, Sequences, FiniteSets, TLC

VARIABLES nodes, maps, app, routers, regs, last, reqid, recov, inflight

vars == <<nodes, maps, app, routers, regs, last, reqid, recov, inflight>>

----------------------------------------------------------------------------
(* Bounds of the model *)

MaxRegs == 3

MaxRouters == 3

\* RequestID middlewares built, requests served through them
MaxMiddlewares == 2

MaxRequests == 2

----------------------------------------------------------------------------
(* Strings *)

Nil == 0

\* s[i] of Go
At(s, i) == s[i + 1]

\* s[i:j] of Go
Slice(s, i, j) == SubSeq(s, i + 1, j)

\* s[i:] of Go
From(s, i) == SubSeq(s, i + 1, Len(s))

RECURSIVE IndexByteFrom(_, _, _)
IndexByteFrom(s, c, i) ==
    IF i >= Len(s) THEN -1
    ELSE IF At(s, i) = c THEN i
    ELSE IndexByteFrom(s, c, i + 1)

\* strings.IndexByte: first index of c in s, -1 when absent
IndexByte(s, c) == IndexByteFrom(s, c, 0)

\* strings.TrimPrefix(s, "/")
TrimPrefix(s) == IF Len(s) > 0 /\ At(s, 0) = "/" THEN From(s, 1) ELSE s

\* strings.TrimSuffix(s, "/")
TrimSuffix(s) ==
    IF Len(s) > 0 /\ At(s, Len(s) - 1) = "/" THEN Slice(s, 0, Len(s) - 1) ELSE s

RECURSIVE Split(_)
\* strings.Split(s, "/"): always at least one (possibly empty) piece
Split(s) ==
    LET j == IndexByte(s, "/")
    IN  IF j = -1 THEN <<s>>
        ELSE <<Slice(s, 0, j)>> \o Split(From(s, j + 1))

RECURSIVE Join(_)
\* strings.Join(segs, "/")
Join(segs) ==
    IF Len(segs) = 0 THEN <<>>
    ELSE IF Len(segs) = 1 THEN segs[1]
    ELSE segs[1] \o <<"/">> \o Join(Tail(segs))

Letters ==
    {"a", "b", "c", "d", "e", "f", "g", "h", "i", "j", "k", "l", "m",
     "n", "o", "p", "q", "r", "s", "t", "u", "v", "w", "x", "y", "z",
     "A", "B", "C", "D", "E", "F", "G", "H", "I", "J", "K", "L", "M",
     "N", "O", "P", "Q", "R", "S", "T", "U", "V", "W", "X", "Y", "Z"}

Digits == {"0", "1", "2", "3", "4", "5", "6", "7", "8", "9"}

\* the expression without its anchors and its first class, [a-zA-Z0-9_]*: a
\* variant that lets through empty names and names with a leading digit
paramRegexUnanchored(s) ==
    \A i \in 1..Len(s) : s[i] \in Letters \cup Digits \cup {"_"}

\* ^[a-zA-Z_][a-zA-Z0-9_]*$
paramRegex(s) ==
    /\ Len(s) > 0
    /\ s[1] \in Letters \cup {"_"}
    /\ \A i \in 2..Len(s) : s[i] \in Letters \cup Digits \cup {"_"}

----------------------------------------------------------------------------
(* Path lexer and validator *)

static == 0

param == 1

catchAll == 2

\* s[0] of the empty string: an index-out-of-range runtime panic
getSegmentTypePanics(s) == Len(s) = 0

\* a variant that takes a segment starting with "*" for a literal
getSegmentTypeNoCatchAll(s) == IF At(s, 0) = ":" THEN param ELSE static

getSegmentType(s) ==
    IF At(s, 0) = ":" THEN param
    ELSE IF At(s, 0) = "*" THEN catchAll
    ELSE static

longestPrefixLen(s1, s2) ==
    LET min == IF Len(s2) < Len(s1) THEN Len(s2) ELSE Len(s1)
        diff == {i \in 0..(min - 1) : At(s1, i) # At(s2, i)}
    IN  IF diff = {} THEN min
        ELSE CHOOSE i \in diff : \A k \in diff : i <= k

longestPrefix(s1, s2) == Slice(s1, 0, longestPrefixLen(s1, s2))

cleanPath(p) ==
    LET segments == Split(TrimSuffix(TrimPrefix(p)))
        final == SelectSeq(segments, LAMBDA seg : seg # <<>>)
    IN  <<"/">> \o Join(final)

RECURSIVE splitLoop(_, _, _)
\* the loop of splitPath: consecutive static pieces are appended to cur
\* (without a separator); a param or catch-all piece flushes cur
splitLoop(pieces, cur, segments) ==
    IF Len(pieces) = 0
    THEN IF cur # <<>> THEN Append(segments, cur) ELSE segments
    ELSE LET seg == Head(pieces)
         IN  IF getSegmentType(seg) = static
             THEN splitLoop(Tail(pieces), cur \o seg, segments)
             ELSE splitLoop(Tail(pieces), <<>>,
                            Append(IF cur # <<>> THEN Append(segments, cur)
                                   ELSE segments, seg))

\* splitPath calls getSegmentType on every piece strings.Split returns, the
\* empty ones included
splitPathPanics(p) ==
    LET pieces == Split(TrimPrefix(p))
    IN  \E i \in 1..Len(pieces) : getSegmentTypePanics(pieces[i])

splitPath(p) == splitLoop(Split(TrimPrefix(p)), <<>>, <<>>)

RECURSIVE validLoop(_, _, _, _)
\* the loop of isValidPath over segments[i..]; prevTyp = -1 is the nil pointer
validLoop(segments, i, prevTyp, keys) ==
    IF i >= Len(segments) THEN TRUE
    ELSE LET seg == At(segments, i)
         IN  IF seg = <<>> THEN validLoop(segments, i + 1, prevTyp, keys)
             ELSE LET typ == getSegmentType(seg)
                  IN  IF prevTyp # -1 /\ prevTyp # static /\ typ # static
                      THEN FALSE
                      ELSE IF typ = catchAll /\ i # Len(segments) - 1
                      THEN FALSE
                      ELSE IF typ = param /\ seg \in keys
                      THEN FALSE
                      ELSE IF typ = param /\ ~paramRegex(From(seg, 1))
                      THEN FALSE
                      ELSE IF typ = catchAll /\ seg # <<"*">>
                      THEN FALSE
                      ELSE validLoop(segments, i + 1, typ,
                                     IF typ = param THEN keys \cup {seg}
                                     ELSE keys)

isValidPath(p) == validLoop(splitPath(p), 0, -1, {})

----------------------------------------------------------------------------
(* Trie nodes.  H is a heap [nodes, maps]; st adds the insert loop's locals *)

\* the nil *endpoint
NoEndpoint == [nil |-> TRUE]

\* make(map[byte]*node)
EmptyMap == [c \in {} |-> Nil]

\* [catchAll + 1]*node{}
EmptySpecial == [i \in 0..catchAll |-> Nil]

\* m[label] of a Go map: nil when the key is absent
MapGet(m, label) == IF label \in DOMAIN m THEN m[label] ELSE Nil

\* allocates the map and the node struct; the new node's address is
\* Len(H.nodes) + 1
newNode(H, nType, prefix) ==
    [H EXCEPT !.maps = Append(H.maps, EmptyMap),
              !.nodes = Append(H.nodes,
                               [nType |-> nType, prefix |-> prefix,
                                children |-> Len(H.maps) + 1,
                                special |-> EmptySpecial,
                                endpoint |-> NoEndpoint])]

newTree(H) == newNode(H, static, <<>>)

newEndpoint(path, fn, pKeys) == [fn |-> fn, fullPath |-> path, pKeys |-> pKeys]

\* n.children[label]
childOf(H, n, label) == MapGet(H.maps[H.nodes[n].children], label)

addChild(H, n, label, node) ==
    [H EXCEPT !.maps[H.nodes[n].children] = (label :> node) @@ @]

addSpecial(H, n, nType, node) == [H EXCEPT !.nodes[n].special[nType] = node]

clearChildren(H, n) ==
    [H EXCEPT !.maps = Append(H.maps, EmptyMap),
              !.nodes[n].children = Len(H.maps) + 1,
              !.nodes[n].special = EmptySpecial]

\* a variant that leaves the special array of n as it is
copyFromNoSpecial(H, n, node) ==
    [H EXCEPT !.nodes[n].children = H.nodes[node].children,
              !.nodes[n].endpoint = H.nodes[node].endpoint]

\* shares the children map of `node`, copies its special array and endpoint
copyFrom(H, n, node) ==
    [H EXCEPT !.nodes[n].children = H.nodes[node].children,
              !.nodes[n].special = H.nodes[node].special,
              !.nodes[n].endpoint = H.nodes[node].endpoint]

setEndpoint(H, n, e) == [H EXCEPT !.nodes[n].endpoint = e]

\* a variant that attaches the tail under the first byte of lcp, the key the
\* truncated node itself is stored under
splitEdgeKeyLcp(st, next, search, lcp) ==
    LET rem == From(st.nodes[next].prefix, Len(lcp))
        h1 == [st EXCEPT !.nodes[next].prefix = lcp]
        h2 == newNode(h1, static, rem)
        new == Len(h2.nodes)
        h3 == copyFrom(h2, new, next)
        h4 == clearChildren(h3, next)
        h5 == setEndpoint(h4, next, NoEndpoint)
        h6 == addChild(h5, next, At(lcp, 0), new)
    IN  IF Len(search) > Len(lcp)
        THEN LET h7 == newNode(h6, static, From(search, Len(lcp)))
                 newSearch == Len(h7.nodes)
                 h8 == addChild(h7, next, At(From(search, Len(lcp)), 0), newSearch)
             IN  [h8 EXCEPT !.cur = newSearch]
        ELSE [h6 EXCEPT !.cur = next]

\* the edge split of insert: next's prefix diverges from search after lcp
splitEdge(st, next, search, lcp) ==
    LET rem == From(st.nodes[next].prefix, Len(lcp))
        h1 == [st EXCEPT !.nodes[next].prefix = lcp]
        h2 == newNode(h1, static, rem)
        new == Len(h2.nodes)
        h3 == copyFrom(h2, new, next)
        h4 == clearChildren(h3, next)
        h5 == setEndpoint(h4, next, NoEndpoint)
        h6 == addChild(h5, next, At(rem, 0), new)
    IN  IF Len(search) > Len(lcp)
        THEN LET h7 == newNode(h6, static, From(search, Len(lcp)))
                 newSearch == Len(h7.nodes)
                 h8 == addChild(h7, next, At(From(search, Len(lcp)), 0), newSearch)
             IN  [h8 EXCEPT !.cur = newSearch]
        ELSE [h6 EXCEPT !.cur = next]

\* one iteration of `for len(search) > 0` of insert, for a non-empty search:
\* the heap and cur after it, and the search string it leaves
insertStaticStep(st, search) ==
    LET next == childOf(st, st.cur, At(search, 0))
    IN  IF next = Nil
        THEN LET h1 == newNode(st, static, search)
                 new == Len(h1.nodes)
                 h2 == addChild(h1, st.cur, At(search, 0), new)
             IN  [st |-> [h2 EXCEPT !.cur = new], search |-> <<>>]
        ELSE LET lcp == longestPrefix(search, st.nodes[next].prefix)
             IN  IF Len(lcp) < Len(st.nodes[next].prefix)
                 THEN [st |-> splitEdge(st, next, search, lcp), search |-> <<>>]
                 ELSE [st |-> [st EXCEPT !.cur = next],
                       search |-> From(search, Len(lcp))]

RECURSIVE insertStatic(_, _)
\* case static of insert: the loop `for len(search) > 0`
insertStatic(st, search) ==
    IF Len(search) = 0 THEN st
    ELSE LET next == childOf(st, st.cur, At(search, 0))
         IN  IF next = Nil
             THEN LET h1 == newNode(st, static, search)
                      new == Len(h1.nodes)
                      h2 == addChild(h1, st.cur, At(search, 0), new)
                  IN  [h2 EXCEPT !.cur = new]
             ELSE LET lcp == longestPrefix(search, st.nodes[next].prefix)
                  IN  IF Len(lcp) < Len(st.nodes[next].prefix)
                      THEN splitEdge(st, next, search, lcp)
                      ELSE insertStatic([st EXCEPT !.cur = next],
                                        From(search, Len(lcp)))

\* a variant that does not record the key of the segment
insertSpecialNoKey(st, nType, key) ==
    LET n == st.nodes[st.cur].special[nType]
    IN  IF n = Nil
        THEN LET h1 == newNode(st, nType, <<>>)
                 new == Len(h1.nodes)
                 h2 == addSpecial(h1, st.cur, nType, new)
             IN  [h2 EXCEPT !.cur = new]
        ELSE [st EXCEPT !.cur = n]

\* a variant that records the key only when it creates the special child, the
\* name belonging to the shared node
insertSpecialSharedName(st, nType, key) ==
    LET s1 == [st EXCEPT !.pKeys = Append(@, key)]
        n == st.nodes[st.cur].special[nType]
    IN  IF n = Nil
        THEN LET h1 == newNode(s1, nType, <<>>)
                 new == Len(h1.nodes)
                 h2 == addSpecial(h1, s1.cur, nType, new)
             IN  [h2 EXCEPT !.cur = new]
        ELSE [st EXCEPT !.cur = n]

\* case param / case catchAll of insert
insertSpecial(st, nType, key) ==
    LET s1 == [st EXCEPT !.pKeys = Append(@, key)]
        n == s1.nodes[s1.cur].special[nType]
    IN  IF n = Nil
        THEN LET h1 == newNode(s1, nType, <<>>)
                 new == Len(h1.nodes)
                 h2 == addSpecial(h1, s1.cur, nType, new)
             IN  [h2 EXCEPT !.cur = new]
        ELSE [s1 EXCEPT !.cur = n]

RECURSIVE insertSegments(_, _)
\* the loop of insert over splitPath(p)
insertSegments(st, segs) ==
    IF Len(segs) = 0 THEN st
    ELSE LET seg == Head(segs)
             typ == getSegmentType(seg)
             s1 == IF typ = static THEN insertStatic(st, seg)
                   ELSE IF typ = param THEN insertSpecial(st, param, From(seg, 1))
                   ELSE insertSpecial(st, catchAll, <<"*">>)
         IN  insertSegments(s1, Tail(segs))

\* insert panics in the splitPath call of isValidPath, before it has
\* changed anything
insertPanics(p) == splitPathPanics(cleanPath(p))

\* (t *tree) insert(p, fn) on heap H; t is a node address
insert(H, t, p, fn) ==
    LET cp == cleanPath(p)
    IN  IF insertPanics(p) THEN H
        ELSE IF ~isValidPath(cp) THEN H
        ELSE LET st == insertSegments([nodes |-> H.nodes, maps |-> H.maps,
                                       cur |-> t, pKeys |-> <<>>],
                                      splitPath(cp))
                 h1 == setEndpoint(st, st.cur, newEndpoint(cp, fn, st.pKeys))
             IN  [nodes |-> h1.nodes, maps |-> h1.maps]

----------------------------------------------------------------------------
(* Trie resolver, on the current heap *)

Heap == [nodes |-> nodes, maps |-> maps]

\* the nil *byte
NoLabel == ""

\* return nil, map[string]string{}
Miss == [e |-> NoEndpoint, pMap |-> EmptyMap, params |-> <<>>, fault |-> FALSE]

\* the zip after the loop of find: pMap[k] = params[i] for every name of the
\* endpoint; with fewer values than names params[i] is an index-out-of-range
\* runtime panic (fault).  `params` in the result are the values collected
findResult(H, cur, params) ==
    LET e == H.nodes[cur].endpoint
    IN  IF e = NoEndpoint THEN Miss
        ELSE IF Len(params) < Len(e.pKeys)
        THEN [e |-> e, pMap |-> EmptyMap, params |-> params, fault |-> TRUE]
        ELSE [e |-> e,
              pMap |-> [k \in {e.pKeys[i] : i \in 1..Len(e.pKeys)} |->
                          params[CHOOSE i \in 1..Len(e.pKeys) :
                                    /\ e.pKeys[i] = k
                                    /\ \A j \in 1..Len(e.pKeys) :
                                          e.pKeys[j] = k => j <= i]],
              params |-> params, fault |-> FALSE]

RECURSIVE findLoop(_, _, _, _, _, _)
\* a variant of the loop that tries the parameter child before the static
\* child when no static edge is half matched
findLoopParamFirst(H, p, cur, prevLabel, start, params) ==
    IF Len(p) = 0 THEN findResult(H, cur, params)
    ELSE IF At(p, 0) = "/" THEN findLoop(H, From(p, 1), cur, prevLabel, start, params)
    ELSE LET label == IF prevLabel # NoLabel THEN prevLabel ELSE At(p, 0)
             staticN == childOf(H, cur, label)
             paramN == H.nodes[cur].special[param]
             catchAllN == H.nodes[cur].special[catchAll]
         IN  IF paramN # Nil /\ prevLabel = NoLabel
             THEN LET j == IndexByte(p, "/")
                  IN  IF j = -1
                      THEN findLoop(H, <<>>, paramN, prevLabel, start, Append(params, p))
                      ELSE findLoop(H, From(p, j + 1), paramN, prevLabel, start,
                                    Append(params, Slice(p, 0, j)))
             ELSE IF staticN # Nil
             THEN LET lcp == longestPrefix(p, From(H.nodes[staticN].prefix, start))
                  IN  IF Len(lcp) = 0 THEN findResult(H, cur, params)
                      ELSE IF Len(lcp) + start = Len(H.nodes[staticN].prefix)
                      THEN findLoop(H, From(p, Len(lcp)), staticN, NoLabel, 0, params)
                      ELSE findLoop(H, From(p, Len(lcp)), cur, label,
                                    start + Len(lcp), params)
             ELSE IF catchAllN # Nil
             THEN findLoop(H, <<>>, catchAllN, prevLabel, start, Append(params, p))
             ELSE Miss

\* a variant of the loop that enters the catch-all child without collecting
\* the remainder
findLoopNoRemainder(H, p, cur, prevLabel, start, params) ==
    IF Len(p) = 0 THEN findResult(H, cur, params)
    ELSE IF At(p, 0) = "/" THEN findLoop(H, From(p, 1), cur, prevLabel, start, params)
    ELSE LET label == IF prevLabel # NoLabel THEN prevLabel ELSE At(p, 0)
             staticN == childOf(H, cur, label)
             paramN == H.nodes[cur].special[param]
             catchAllN == H.nodes[cur].special[catchAll]
         IN  IF staticN # Nil
             THEN LET lcp == longestPrefix(p, From(H.nodes[staticN].prefix, start))
                  IN  IF Len(lcp) = 0 THEN findResult(H, cur, params)
                      ELSE IF Len(lcp) + start = Len(H.nodes[staticN].prefix)
                      THEN findLoop(H, From(p, Len(lcp)), staticN, NoLabel, 0, params)
                      ELSE findLoop(H, From(p, Len(lcp)), cur, label,
                                    start + Len(lcp), params)
             ELSE IF paramN # Nil
             THEN LET j == IndexByte(p, "/")
                  IN  IF j = -1
                      THEN findLoop(H, <<>>, paramN, prevLabel, start, Append(params, p))
                      ELSE findLoop(H, From(p, j + 1), paramN, prevLabel, start,
                                    Append(params, Slice(p, 0, j)))
             ELSE IF catchAllN # Nil
             THEN findLoop(H, <<>>, catchAllN, prevLabel, start, params)
             ELSE Miss

\* a variant of the loop whose parameter value runs through the slash that
\* ends it
findLoopThroughSlash(H, p, cur, prevLabel, start, params) ==
    IF Len(p) = 0 THEN findResult(H, cur, params)
    ELSE IF At(p, 0) = "/" THEN findLoop(H, From(p, 1), cur, prevLabel, start, params)
    ELSE LET label == IF prevLabel # NoLabel THEN prevLabel ELSE At(p, 0)
             staticN == childOf(H, cur, label)
             paramN == H.nodes[cur].special[param]
             catchAllN == H.nodes[cur].special[catchAll]
         IN  IF staticN # Nil
             THEN LET lcp == longestPrefix(p, From(H.nodes[staticN].prefix, start))
                  IN  IF Len(lcp) = 0 THEN findResult(H, cur, params)
                      ELSE IF Len(lcp) + start = Len(H.nodes[staticN].prefix)
                      THEN findLoop(H, From(p, Len(lcp)), staticN, NoLabel, 0, params)
                      ELSE findLoop(H, From(p, Len(lcp)), cur, label,
                                    start + Len(lcp), params)
             ELSE IF paramN # Nil
             THEN LET j == IndexByte(p, "/")
                  IN  IF j = -1
                      THEN findLoop(H, <<>>, paramN, prevLabel, start, Append(params, p))
                      ELSE findLoop(H, From(p, j + 1), paramN, prevLabel, start,
                                    Append(params, Slice(p, 0, j + 1)))
             ELSE IF catchAllN # Nil
             THEN findLoop(H, <<>>, catchAllN, prevLabel, start, Append(params, p))
             ELSE Miss

\* the loop `for len(p) > 0` of find
findLoop(H, p, cur, prevLabel, start, params) ==
    IF Len(p) = 0 THEN findResult(H, cur, params)
    ELSE IF At(p, 0) = "/" THEN findLoop(H, From(p, 1), cur, prevLabel, start, params)
    ELSE LET label == IF prevLabel # NoLabel THEN prevLabel ELSE At(p, 0)
             staticN == childOf(H, cur, label)
             paramN == H.nodes[cur].special[param]
             catchAllN == H.nodes[cur].special[catchAll]
         IN  IF staticN # Nil
             THEN LET lcp == longestPrefix(p, From(H.nodes[staticN].prefix, start))
                  IN  IF Len(lcp) = 0 THEN findResult(H, cur, params)
                      ELSE IF Len(lcp) + start = Len(H.nodes[staticN].prefix)
                      THEN findLoop(H, From(p, Len(lcp)), staticN, NoLabel, 0, params)
                      ELSE findLoop(H, From(p, Len(lcp)), cur, label,
                                    start + Len(lcp), params)
             ELSE IF paramN # Nil
             THEN LET j == IndexByte(p, "/")
                  IN  IF j = -1
                      THEN findLoop(H, <<>>, paramN, prevLabel, start, Append(params, p))
                      ELSE findLoop(H, From(p, j + 1), paramN, prevLabel, start,
                                    Append(params, Slice(p, 0, j)))
             ELSE IF catchAllN # Nil
             THEN findLoop(H, <<>>, catchAllN, prevLabel, start, Append(params, p))
             ELSE Miss

\* (t *tree) find(p)
find(H, t, p) == findLoop(H, p, t, NoLabel, 0, <<>>)

\* the locals of one call of find that has not started: pc is the position of
\* the call ("idle", "loop" at the head of the loop, "done" after its return)
idleLookup ==
    [pc |-> "idle", path |-> <<>>, p |-> <<>>, cur |-> Nil, prevLabel |-> NoLabel,
     start |-> 0, params |-> <<>>, e |-> NoEndpoint, pMap |-> EmptyMap,
     fault |-> FALSE]

\* no request is being served
NoLookups == [k \in 1..MaxRequests |-> idleLookup]

\* the entry of find(p) on tree t: params := []string{}; cur := t;
\* prevLabel = nil; start := 0
findEnter(t, path) ==
    [idleLookup EXCEPT !.pc = "loop", !.path = path, !.p = path, !.cur = t]

\* the return of find from node cur with the values collected: the endpoint
\* test and the zip into a new map
findReturn(H, s, cur, params) ==
    LET r == findResult(H, cur, params)
    IN  [s EXCEPT !.pc = "done", !.cur = cur, !.params = params,
                  !.e = r.e, !.pMap = r.pMap, !.fault = r.fault]

\* the `return nil, map[string]string{}` inside the loop
findReturnNil(s) ==
    [s EXCEPT !.pc = "done", !.e = NoEndpoint, !.pMap = EmptyMap]

\* a variant of the iteration whose slash skip leaves p as it is
findStepKeepSlash(H, s) ==
    IF Len(s.p) = 0 THEN findReturn(H, s, s.cur, s.params)
    ELSE IF At(s.p, 0) = "/" THEN s
    ELSE LET label == IF s.prevLabel # NoLabel THEN s.prevLabel ELSE At(s.p, 0)
             staticN == childOf(H, s.cur, label)
             paramN == H.nodes[s.cur].special[param]
             catchAllN == H.nodes[s.cur].special[catchAll]
         IN  IF staticN # Nil
             THEN LET lcp == longestPrefix(s.p, From(H.nodes[staticN].prefix, s.start))
                  IN  IF Len(lcp) = 0 THEN findReturn(H, s, s.cur, s.params)
                      ELSE IF Len(lcp) + s.start = Len(H.nodes[staticN].prefix)
                      THEN [s EXCEPT !.cur = staticN, !.p = From(s.p, Len(lcp)),
                                     !.prevLabel = NoLabel, !.start = 0]
                      ELSE [s EXCEPT !.prevLabel = label,
                                     !.start = s.start + Len(lcp),
                                     !.p = From(s.p, Len(lcp))]
             ELSE IF paramN # Nil
             THEN LET j == IndexByte(s.p, "/")
                  IN  IF j = -1
                      THEN [s EXCEPT !.params = Append(s.params, s.p),
                                     !.cur = paramN, !.p = <<>>]
                      ELSE [s EXCEPT !.params = Append(s.params, Slice(s.p, 0, j)),
                                     !.cur = paramN, !.p = From(s.p, j + 1)]
             ELSE IF catchAllN # Nil
             THEN [s EXCEPT !.params = Append(s.params, s.p),
                            !.cur = catchAllN, !.p = <<>>]
             ELSE findReturnNil(s)

\* one pass through `for len(p) > 0` of find on the locals s of a call: the
\* loop test and, when it holds, one iteration up to its continue, break or
\* return; when it fails, or after break, the code after the loop
findStep(H, s) ==
    IF Len(s.p) = 0 THEN findReturn(H, s, s.cur, s.params)
    ELSE IF At(s.p, 0) = "/" THEN [s EXCEPT !.p = From(s.p, 1)]
    ELSE LET label == IF s.prevLabel # NoLabel THEN s.prevLabel ELSE At(s.p, 0)
             staticN == childOf(H, s.cur, label)
             paramN == H.nodes[s.cur].special[param]
             catchAllN == H.nodes[s.cur].special[catchAll]
         IN  IF staticN # Nil
             THEN LET lcp == longestPrefix(s.p, From(H.nodes[staticN].prefix, s.start))
                  IN  IF Len(lcp) = 0 THEN findReturn(H, s, s.cur, s.params)
                      ELSE IF Len(lcp) + s.start = Len(H.nodes[staticN].prefix)
                      THEN [s EXCEPT !.cur = staticN, !.p = From(s.p, Len(lcp)),
                                     !.prevLabel = NoLabel, !.start = 0]
                      ELSE [s EXCEPT !.prevLabel = label,
                                     !.start = s.start + Len(lcp),
                                     !.p = From(s.p, Len(lcp))]
             ELSE IF paramN # Nil
             THEN LET j == IndexByte(s.p, "/")
                  IN  IF j = -1
                      THEN [s EXCEPT !.params = Append(s.params, s.p),
                                     !.cur = paramN, !.p = <<>>]
                      ELSE [s EXCEPT !.params = Append(s.params, Slice(s.p, 0, j)),
                                     !.cur = paramN, !.p = From(s.p, j + 1)]
             ELSE IF catchAllN # Nil
             THEN [s EXCEPT !.params = Append(s.params, s.p),
                            !.cur = catchAllN, !.p = <<>>]
             ELSE findReturnNil(s)

\* a variant in which the calls of find collect their values in one slice
\* kept with the tree instead of one slice per call
lookupStepSharedParams(H, fl, k) ==
    LET s == findStep(H, fl[k])
    IN  [i \in DOMAIN fl |->
            IF i = k THEN s
            ELSE IF fl[i].pc = "loop" THEN [fl[i] EXCEPT !.params = s.params]
            ELSE fl[i]]

\* request k runs one pass of its call of find: p, cur, prevLabel, start and
\* params are locals of the call, so only the k-th entry changes
lookupStep(H, fl, k) == [fl EXCEPT ![k] = findStep(H, fl[k])]

----------------------------------------------------------------------------
(* Handlers and middleware.  A handler value is a user handler (id), one   *)
(* of the package's fallbacks, or the closure chainMws builds.  Every      *)
(* modelled middleware logs entry, calls next once and logs exit, as the   *)
(* ones of TestMiddlewareOrder do.                                         *)

userHandler(id) == [kind |-> "user", id |-> id]

options == [kind |-> "options"]

notFound == [kind |-> "notFound"]

notAllowed == [kind |-> "notAllowed"]

RECURSIVE chainLoop(_, _, _)
\* for i := len(mws) - 1; i >= 0; i--
chainLoop(mws, i, handler) ==
    IF i < 0 THEN handler
    ELSE chainLoop(mws, i - 1,
                   [kind |-> "chain", mw |-> At(mws, i), next |-> handler])

RECURSIVE chainLoopForward(_, _, _)
chainLoopForward(mws, i, handler) ==
    IF i >= Len(mws) THEN handler
    ELSE chainLoopForward(mws, i + 1,
                          [kind |-> "chain", mw |-> At(mws, i), next |-> handler])

\* a variant whose loop runs i := 0; i < len(mws); i++, wrapping the first
\* middleware innermost
chainMwsForward(mws, fn) == chainLoopForward(mws, 0, fn)

chainMws(mws, fn) == chainLoop(mws, Len(mws) - 1, fn)

RECURSIVE Call(_)
\* the events of calling a handler value: mw(next)(w, r) for a closure
Call(h) ==
    IF h.kind = "chain"
    THEN <<<<"enter", h.mw>>>> \o Call(h.next) \o <<<<"exit", h.mw>>>>
    ELSE IF h.kind = "user" THEN <<<<"handler", h.id>>>>
    ELSE <<<<h.kind, 0>>>>

RECURSIVE Applied(_)
\* the applications mw(next) made while the handler value h runs: the closure
\* chainMws builds evaluates mw(next) in its body, each time it is called
Applied(h) ==
    IF h.kind = "chain"
    THEN <<[mw |-> h.mw, next |-> h.next]>> \o Applied(h.next)
    ELSE <<>>

\* the applications mw(next) made by chainMws(mws, fn) itself: its loop only
\* builds closures
chainMwsApplied(mws, fn) == <<>>

StatusNotFound == 404

StatusMethodNotAllowed == 405

StatusOK == 200

\* the status the recorder ends with: the fallbacks call WriteHeader, the
\* modelled user handlers and options write nothing
StatusOf(events) ==
    IF \E i \in 1..Len(events) : events[i][1] = "notFound" THEN StatusNotFound
    ELSE IF \E i \in 1..Len(events) : events[i][1] = "notAllowed"
    THEN StatusMethodNotAllowed
    ELSE StatusOK

----------------------------------------------------------------------------
(* The RequestID middleware (package middleware).  Header values and IDs   *)
(* are strings, "" for an absent header; a *string is <<>> when nil and    *)
(* <<s>> when it points to s.  `reqid` holds the number of UUIDs drawn so  *)
(* far, the middlewares RequestID has returned and the requests served     *)
(* through them.                                                           *)

\* (uuid UUID) String() of the n-th UUID that uuid.New() returns: different
\* draws give different strings
uuidString(n) == "uuid-" \o ToString(n)

defaultReqIDHeader == "X-Request-ID"

\* Generator: uuid.New().String is a method value: uuid.New() is called once,
\* when the package is initialised, and String is bound to that UUID
defaultRequestIDConfig ==
    [Header |-> <<defaultReqIDHeader>>,
     Generator |-> [kind |-> "String", recv |-> 1]]

\* the zero value of a Generator field
nilGenerator == [kind |-> "nil"]

\* a func() string of the caller that returns the string s
generatorFunc(s) == [kind |-> "func", result |-> s]

\* calling a Generator
Generate(g) == IF g.kind = "String" THEN uuidString(g.recv) ELSE g.result

\* the package after initialisation: one UUID drawn, for the default config
NoRequestIDs == [uuids |-> 1, made |-> <<>>, served |-> <<>>]

\* config of RequestID(cfg...): the default, with cfg[0].Header when given
requestIDConfig(cfg) ==
    IF Len(cfg) > 0 /\ cfg[1].Header # <<>>
    THEN [defaultRequestIDConfig EXCEPT !.Header = cfg[1].Header]
    ELSE defaultRequestIDConfig

\* RequestID(cfg...): the middleware returned closes over config
RequestID(cfg) ==
    /\ Len(reqid.made) < MaxMiddlewares
    /\ reqid' = [reqid EXCEPT !.made =
                    Append(@, [cfg |-> cfg, config |-> requestIDConfig(cfg)])]
    /\ last' = [op |-> "RequestID"]
    /\ UNCHANGED <<nodes, maps, app, routers, regs, recov, inflight>>

\* GetRequestID(r): the value stored under reqIDKey, "" without one
GetRequestID(ctx) == IF "reqID" \in DOMAIN ctx THEN ctx["reqID"] ELSE ""

\* one request through middleware k around a handler that reads
\* GetRequestID(r); hdrs are the request's headers
RequestIDServe(k, hdrs) ==
    LET config == reqid.made[k].config
        got == hdrs[config.Header[1]]
        requestID == IF got = "" THEN Generate(config.Generator) ELSE got
        ctx == [c \in {"reqID"} |-> requestID]
    IN  /\ Len(reqid.served) < MaxRequests
        /\ reqid' = [reqid EXCEPT !.served =
                        Append(@, [mw |-> k, incoming |-> got,
                                   header |-> [name |-> config.Header[1],
                                               value |-> requestID],
                                   read |-> GetRequestID(ctx)])]
        /\ last' = [op |-> "RequestIDServe"]
        /\ UNCHANGED <<nodes, maps, app, routers, regs, recov, inflight>>

----------------------------------------------------------------------------
(* The ErrRecover middleware (package middleware).  `recov` holds the      *)
(* middlewares ErrRecover has returned and the requests served through     *)
(* them.  A callback value is defaultCb, a func of the caller, or nil.     *)

StatusInternalServerError == 500

\* defaultCb(v): log.Printf("Recovered from panic: %v\n", v)
defaultCb == [kind |-> "defaultCb"]

\* the zero value of the Cb field
nilCb == [kind |-> "nil"]

\* a func(v any) of the caller
cbFunc(id) == [kind |-> "func", id |-> id]

defaultErrRecoverConfig == [Cb |-> defaultCb]

NoRecoveries == [made |-> <<>>, served |-> <<>>]

\* cb of ErrRecover(cfg...): the default's, replaced by cfg[0].Cb whenever a
\* config is passed
errRecoverCb(cfg) ==
    IF Len(cfg) > 0 THEN cfg[1].Cb ELSE defaultErrRecoverConfig.Cb

\* ErrRecover(cfg...): the middleware returned closes over cb
ErrRecover(cfg) ==
    /\ Len(recov.made) < MaxMiddlewares
    /\ recov' = [recov EXCEPT !.made =
                    Append(@, [cfg |-> cfg, cb |-> errRecoverCb(cfg)])]
    /\ last' = [op |-> "ErrRecover"]
    /\ UNCHANGED <<nodes, maps, app, routers, regs, reqid, inflight>>

\* the handler ErrRecover's middleware returns, around `next`; next is
\* [writes, panics, v]: the WriteHeader calls it makes, and whether it then
\* panics with the non-nil value v.  The deferred function recovers v, calls
\* cb(v) and writes 500; calling a nil cb is a runtime panic raised inside the
\* deferred function, which nothing recovers.  The result holds the calls of
\* the callback, all WriteHeader calls, and the panic that leaves the handler
\* (<<>> when none does)
errRecoverHandler(cb, next) ==
    IF ~next.panics
    THEN [calls |-> <<>>, writes |-> next.writes, propagated |-> <<>>]
    ELSE IF cb = nilCb
    THEN [calls |-> <<>>, writes |-> next.writes,
          propagated |-> <<"nil func call">>]
    ELSE [calls |-> <<[cb |-> cb, v |-> next.v]>>,
          writes |-> Append(next.writes, StatusInternalServerError),
          propagated |-> <<>>]

\* one request through middleware k around the handler `next`
ErrRecoverServe(k, next) ==
    /\ Len(recov.served) < MaxRequests
    /\ recov' = [recov EXCEPT !.served =
                    Append(@, [mw |-> k, next |-> next,
                               out |-> errRecoverHandler(recov.made[k].cb, next)])]
    /\ last' = [op |-> "ErrRecoverServe"]
    /\ UNCHANGED <<nodes, maps, app, routers, regs, reqid, inflight>>

----------------------------------------------------------------------------
(* App and Router *)

mGET == 0

mPOST == 1

mPUT == 2

mPATCH == 3

mDELETE == 4

mWEBSOCKET == 5

maxTrees == mWEBSOCKET + 1

\* a variant of the table without the http.MethodHead entry
methodLookupNoHead ==
    [s \in {"GET", "POST", "PUT", "PATCH", "DELETE", "WS"} |->
        CASE s = "GET" -> mGET
          [] s = "POST" -> mPOST
          [] s = "PUT" -> mPUT
          [] s = "PATCH" -> mPATCH
          [] s = "DELETE" -> mDELETE
          [] s = "WS" -> mWEBSOCKET]

methodLookup ==
    [s \in {"GET", "HEAD", "POST", "PUT", "PATCH", "DELETE", "WS"} |->
        CASE s = "GET" -> mGET
          [] s = "HEAD" -> mGET
          [] s = "POST" -> mPOST
          [] s = "PUT" -> mPUT
          [] s = "PATCH" -> mPATCH
          [] s = "DELETE" -> mDELETE
          [] s = "WS" -> mWEBSOCKET]

reverseMethodLookup ==
    [m \in 0..(maxTrees - 1) |->
        CASE m = mGET -> <<"G", "E", "T">>
          [] m = mPOST -> <<"P", "O", "S", "T">>
          [] m = mPUT -> <<"P", "U", "T">>
          [] m = mPATCH -> <<"P", "A", "T", "C", "H">>
          [] m = mDELETE -> <<"D", "E", "L", "E", "T", "E">>
          [] m = mWEBSOCKET -> <<"W", "S">>]

defaultAppConfig == [AllowTrace |-> FALSE]

RECURSIVE newTrees(_, _)
\* for i := method(0); i < maxTrees; i++ { a.trees[i] = *newTree() }
newTrees(H, i) == IF i >= maxTrees THEN H ELSE newTrees(newTree(H), i + 1)

\* the trees New builds: tree i is the node stored at address i + 1
NewHeap == newTrees([nodes |-> <<>>, maps |-> <<>>], 0)

\* the App New(cfg) returns; `server` is the http.Server that Listen builds
\* around the App, nil until then
NewApp(cfg) ==
    [cfg |-> cfg, options |-> options, notAllowed |-> notAllowed,
     notFound |-> notFound, trees |-> [m \in 0..(maxTrees - 1) |-> m + 1],
     rootRouter |-> Nil, server |-> Nil]

\* the state after app := New(cfg)
New(cfg) ==
    /\ nodes = NewHeap.nodes
    /\ maps = NewHeap.maps
    /\ app = NewApp(cfg)
    /\ routers = <<>>
    /\ regs = <<>>
    /\ last = [op |-> "New"]
    /\ reqid = NoRequestIDs
    /\ recov = NoRecoveries
    /\ inflight = NoLookups

\* the state after app := New(cfg); router := app.Router(path, mws...)
NewRouted(cfg, path, mws) ==
    /\ nodes = NewHeap.nodes
    /\ maps = NewHeap.maps
    /\ app = [NewApp(cfg) EXCEPT !.rootRouter = 1]
    /\ routers = <<[path |-> path, mws |-> mws, parent |-> Nil]>>
    /\ regs = <<>>
    /\ last = [op |-> "Router"]
    /\ reqid = NoRequestIDs
    /\ recov = NoRecoveries
    /\ inflight = NoLookups

\* r.getTree(m): `n` is a copy of the node struct stored in the map, so the
\* returned pointer addresses a new struct that shares only the children map
getTree(H, m) == [H EXCEPT !.nodes = Append(H.nodes, H.nodes[app.trees[m]])]

\* (a *App) Router(path, mws...)
Router(path, mws) ==
    /\ Len(routers) < MaxRouters
    /\ routers' = Append(routers, [path |-> path, mws |-> mws, parent |-> Nil])
    /\ app' = [app EXCEPT !.rootRouter = Len(routers) + 1]
    /\ last' = [op |-> "Router"]
    /\ UNCHANGED <<nodes, maps, regs, reqid, recov, inflight>>

\* (r *Router) Group(path, mws...); `parent` is bookkeeping of the model
\* (the Go struct keeps no link to the parent) and no operation reads it
Group(r, path, mws) ==
    /\ Len(routers) < MaxRouters
    /\ routers' = Append(routers, [path |-> cleanPath(routers[r].path \o path),
                                   mws |-> mws, parent |-> r])
    /\ last' = [op |-> "Group"]
    /\ UNCHANGED <<nodes, maps, app, regs, reqid, recov, inflight>>

RECURSIVE groupChain(_)
\* bookkeeping: the middleware lists of router r's ancestors and of r itself,
\* outermost first
groupChain(r) ==
    IF r = Nil THEN <<>>
    ELSE Append(groupChain(routers[r].parent), routers[r].mws)

\* r.Get(p, mws...) &c.: the route value; t is the pointer getTree returned
route(t, r, p, mws) ==
    [t |-> t, path |-> cleanPath(routers[r].path \o p),
     mws |-> routers[r].mws \o mws]

\* the heap after r.Get(p, mws...).Handle(h): rt.t.insert(rt.path,
\* chainMws(rt.mws, h)) on the pointer getTree returned
HandleOn(r, m, p, mws, h) ==
    LET H1 == getTree(Heap, m)
        rt == route(Len(H1.nodes), r, p, mws)
    IN  insert(H1, rt.t, rt.path, chainMws(rt.mws, h))

\* r.Get(p, mws...).Handle(h) (Post, Put, ... alike, m the method's tree);
\* the handler registered is user handler number Len(regs) + 1.  regs is the
\* history of the calls: path is the cleaned r.path + p, given is p as it was
\* passed, chain and own are bookkeeping for the statements about groups.
\* A call that panics in insert does not return: it leaves the tries and the
\* history as they were.  `applied` in last are the applications mw(next)
\* made during the call
Handle(r, m, p, mws) ==
    LET h == userHandler(Len(regs) + 1)
        rt == route(Len(nodes) + 1, r, p, mws)
        H2 == HandleOn(r, m, p, mws, h)
    IN  /\ Len(regs) < MaxRegs
        /\ IF insertPanics(rt.path)
           THEN UNCHANGED <<nodes, maps, regs>>
           ELSE /\ nodes' = H2.nodes
                /\ maps' = H2.maps
                /\ regs' = Append(regs, [chain |-> groupChain(r), given |-> p,
                                         id |-> h.id, method |-> m,
                                         mws |-> rt.mws, own |-> mws,
                                         path |-> rt.path])
        /\ last' = [applied |-> chainMwsApplied(rt.mws, h), id |-> h.id,
                    method |-> m, op |-> "Handle",
                    panic |-> insertPanics(rt.path), path |-> rt.path]
        /\ UNCHANGED <<app, routers, reqid, recov, inflight>>

\* (a *App) NotAllowed(h)
NotAllowed(id) ==
    /\ app' = [app EXCEPT !.notAllowed = userHandler(id)]
    /\ last' = [op |-> "NotAllowed"]
    /\ UNCHANGED <<nodes, maps, routers, regs, reqid, recov, inflight>>

\* (a *App) NotFound(h)
NotFound(id) ==
    /\ app' = [app EXCEPT !.notFound = userHandler(id)]
    /\ last' = [op |-> "NotFound"]
    /\ UNCHANGED <<nodes, maps, routers, regs, reqid, recov, inflight>>

\* a variant of Listen that starts the server with the fallbacks as they are
ListenUnwrapped ==
    IF app.rootRouter = Nil
    THEN /\ last' = [op |-> "Listen", panic |-> TRUE]
         /\ UNCHANGED <<nodes, maps, app, routers, regs, reqid, recov, inflight>>
    ELSE /\ app' = [app EXCEPT !.server = 1]
         /\ last' = [op |-> "Listen", panic |-> FALSE]
         /\ UNCHANGED <<nodes, maps, routers, regs, reqid, recov, inflight>>

\* (a *App) Listen(port, cfg...) up to the call of ListenAndServe: the three
\* fallbacks are chained with a.rootRouter.mws; without a root router the
\* read of a.rootRouter.mws is a nil dereference and Listen panics
Listen ==
    IF app.rootRouter = Nil
    THEN /\ last' = [op |-> "Listen", panic |-> TRUE]
         /\ UNCHANGED <<nodes, maps, app, routers, regs, reqid, recov, inflight>>
    ELSE LET mws == routers[app.rootRouter].mws
         IN  /\ app' = [app EXCEPT !.notAllowed = chainMws(mws, app.notAllowed),
                                   !.notFound = chainMws(mws, app.notFound),
                                   !.options = chainMws(mws, app.options),
                                   !.server = 1]
             /\ last' = [op |-> "Listen", panic |-> FALSE]
             /\ UNCHANGED <<nodes, maps, routers, regs, reqid, recov, inflight>>

----------------------------------------------------------------------------
(* Request-time glue *)

UpperCase ==
    <<"A", "B", "C", "D", "E", "F", "G", "H", "I", "J", "K", "L", "M",
      "N", "O", "P", "Q", "R", "S", "T", "U", "V", "W", "X", "Y", "Z">>

LowerCase ==
    <<"a", "b", "c", "d", "e", "f", "g", "h", "i", "j", "k", "l", "m",
      "n", "o", "p", "q", "r", "s", "t", "u", "v", "w", "x", "y", "z">>

ToLower(c) ==
    IF \E i \in 1..Len(UpperCase) : UpperCase[i] = c
    THEN LowerCase[CHOOSE i \in 1..Len(UpperCase) : UpperCase[i] = c]
    ELSE c

\* a variant that compares the bytes as they are
EqualExact(s, t) == s = t

\* strings.EqualFold on the modelled (ASCII) characters
EqualFold(s, t) ==
    /\ Len(s) = Len(t)
    /\ \A i \in 1..Len(s) : ToLower(s[i]) = ToLower(t[i])

websocket == <<"w", "e", "b", "s", "o", "c", "k", "e", "t">>

\* the answer of one branch of internalHandler
Answer(via, h, e, pMap) ==
    [via |-> via, fullPath |-> IF e = NoEndpoint THEN <<>> ELSE e.fullPath,
     params |-> pMap, events |-> Call(h), status |-> StatusOf(Call(h)),
     applied |-> Applied(h)]

\* find panicked: internalHandler does not return and nothing is written
Faulted ==
    [via |-> "panic", fullPath |-> <<>>, params |-> EmptyMap, events |-> <<>>,
     status |-> Nil, applied |-> <<>>]

\* a variant that reflects every TRACE request, whatever a.cfg.AllowTrace
internalHandlerTraceAlways(H, r) ==
    IF r.method = "TRACE"
    THEN [via |-> "trace", fullPath |-> <<>>, params |-> EmptyMap,
          events |-> <<>>, status |-> StatusOK, applied |-> <<>>]
    ELSE IF r.method = "OPTIONS"
    THEN Answer("options", app.options, NoEndpoint, EmptyMap)
    ELSE LET method == IF /\ r.connection # <<>>
                          /\ r.upgrade # <<>>
                          /\ EqualFold(r.upgrade, websocket)
                       THEN "WS" ELSE r.method
         IN  IF method \notin DOMAIN methodLookup
             THEN Answer("notAllowed", app.notAllowed, NoEndpoint, EmptyMap)
             ELSE LET t == app.trees[methodLookup[method]]
                      f == find(H, t, r.path)
                  IN  IF f.fault THEN Faulted
                      ELSE IF f.e = NoEndpoint
                      THEN Answer("notFound", app.notFound, NoEndpoint, EmptyMap)
                      ELSE Answer("route", f.e.fn, f.e, f.pMap)

\* a variant without the OPTIONS shortcut: OPTIONS goes through the method
\* lookup like any other method
internalHandlerNoShortcut(H, r) ==
    IF r.method = "TRACE" /\ app.cfg.AllowTrace
    THEN [via |-> "trace", fullPath |-> <<>>, params |-> EmptyMap,
          events |-> <<>>, status |-> StatusOK, applied |-> <<>>]
    ELSE LET method == IF /\ r.connection # <<>>
                          /\ r.upgrade # <<>>
                          /\ EqualFold(r.upgrade, websocket)
                       THEN "WS" ELSE r.method
         IN  IF method \notin DOMAIN methodLookup
             THEN Answer("notAllowed", app.notAllowed, NoEndpoint, EmptyMap)
             ELSE LET t == app.trees[methodLookup[method]]
                      f == find(H, t, r.path)
                  IN  IF f.fault THEN Faulted
                      ELSE IF f.e = NoEndpoint
                      THEN Answer("notFound", app.notFound, NoEndpoint, EmptyMap)
                      ELSE Answer("route", f.e.fn, f.e, f.pMap)

\* (a *App) internalHandler(w, r); r = [method, path, connection, upgrade]
internalHandler(H, r) ==
    IF r.method = "TRACE" /\ app.cfg.AllowTrace
    THEN [via |-> "trace", fullPath |-> <<>>, params |-> EmptyMap,
          events |-> <<>>, status |-> StatusOK, applied |-> <<>>]
    ELSE IF r.method = "OPTIONS"
    THEN Answer("options", app.options, NoEndpoint, EmptyMap)
    ELSE LET method == IF /\ r.connection # <<>>
                          /\ r.upgrade # <<>>
                          /\ EqualFold(r.upgrade, websocket)
                       THEN "WS" ELSE r.method
         IN  IF method \notin DOMAIN methodLookup
             THEN Answer("notAllowed", app.notAllowed, NoEndpoint, EmptyMap)
             ELSE LET t == app.trees[methodLookup[method]]
                      f == find(H, t, r.path)
                  IN  IF f.fault THEN Faulted
                      ELSE IF f.e = NoEndpoint
                      THEN Answer("notFound", app.notFound, NoEndpoint, EmptyMap)
                      ELSE Answer("route", f.e.fn, f.e, f.pMap)

\* (a *App) ServeHTTP(w, r)
ServeHTTP(r) ==
    /\ last' = [op |-> "Serve", req |-> r, resp |-> internalHandler(Heap, r)]
    /\ UNCHANGED <<nodes, maps, app, routers, regs, reqid, recov, inflight>>

\* a request without upgrade headers
\* request k arrives: internalHandler up to the entry of t.find(r.URL.Path)
\* for a GET request without upgrade headers
ServeBegin(k, path) ==
    /\ inflight[k].pc = "idle"
    /\ inflight' = [inflight EXCEPT ![k] = findEnter(app.trees[methodLookup["GET"]], path)]
    /\ UNCHANGED <<nodes, maps, app, routers, regs, last, reqid, recov>>

\* request k runs one pass of the loop of find; find assigns to its locals
\* only
ServeFind(k) ==
    /\ inflight[k].pc = "loop"
    /\ inflight' = lookupStep(Heap, inflight, k)
    /\ UNCHANGED <<nodes, maps, app, routers, regs, last, reqid, recov>>

\* find has returned to internalHandler for request k: not-found, or the
\* endpoint's handler with the map in the request's context
ServeEnd(k) ==
    /\ inflight[k].pc = "done"
    /\ last' = [op |-> "Serve",
                req |-> [connection |-> <<>>, method |-> "GET",
                         path |-> inflight[k].path, upgrade |-> <<>>],
                resp |-> IF inflight[k].fault THEN Faulted
                         ELSE IF inflight[k].e = NoEndpoint
                         THEN Answer("notFound", app.notFound, NoEndpoint, EmptyMap)
                         ELSE Answer("route", inflight[k].e.fn, inflight[k].e,
                                     inflight[k].pMap)]
    /\ inflight' = [inflight EXCEPT ![k] = idleLookup]
    /\ UNCHANGED <<nodes, maps, app, routers, regs, reqid, recov>>

Req(method, path) ==
    [connection |-> <<>>, method |-> method, path |-> path, upgrade |-> <<>>]

----------------------------------------------------------------------------
(* Route listing *)

\* the modelled bytes in ascending byte order
AsciiOrder ==
    <<" ", "*", "/", "0", "1", "2", "3", "4", "5", "6", "7", "8", "9", ":", "@">>
    \o UpperCase \o <<"_">> \o LowerCase

Ord(c) == CHOOSE i \in 1..Len(AsciiOrder) : AsciiOrder[i] = c

\* s1 < s2 of Go strings (bytewise)
StrLess(s1, s2) ==
    LET n == longestPrefixLen(s1, s2)
    IN  IF n = Len(s1) THEN n < Len(s2)
        ELSE IF n = Len(s2) THEN FALSE
        ELSE Ord(At(s1, n)) < Ord(At(s2, n))

\* the orders in which a range over a Go map with the keys S can yield them:
\* the language leaves the order open, every permutation is an outcome
rangeOrders(S) ==
    {q \in [1..Cardinality(S) -> S] : \A i, j \in 1..Cardinality(S) : i # j => q[i] # q[j]}

\* the children of n in the orders recurseCapture can visit them: the special
\* array by index, then the children map in any order
captureOrder(H, n) ==
    LET m == H.maps[H.nodes[n].children]
        specials == SelectSeq([i \in 1..(catchAll + 1) |-> H.nodes[n].special[i - 1]],
                              LAMBDA c : c # Nil)
    IN  {specials \o [i \in 1..Len(keys) |-> m[keys[i]]] : keys \in rangeOrders(DOMAIN m)}

RECURSIVE recurseCapture(_, _, _, _)
RECURSIVE captureEach(_, _, _, _)
\* the two loops of recurseCapture over the children cs in the order given:
\* the slices r can end as
captureEach(H, m, cs, r) ==
    IF Len(cs) = 0 THEN {r}
    ELSE LET c == Head(cs)
             r1 == IF H.nodes[c].endpoint # NoEndpoint
                   THEN Append(r, m \o <<" ">> \o H.nodes[c].endpoint.fullPath)
                   ELSE r
         IN  UNION {captureEach(H, m, Tail(cs), r2) : r2 \in recurseCapture(H, m, c, r1)}

\* recurseCapture(m, n, r): the slices it can return, one for each order of
\* the ranges over the children maps
recurseCapture(H, m, n, r) ==
    UNION {captureEach(H, m, cs, r) : cs \in captureOrder(H, n)}

\* (t *tree) captureRoutes(m): the slices it can return
captureRoutes(H, t, m) == recurseCapture(H, m, t, <<>>)

RECURSIVE treeCaptures(_, _)
\* t.captureRoutes(reverseMethodLookup[l]) of every tree from l on
treeCaptures(H, l) ==
    IF l >= maxTrees THEN <<>>
    ELSE <<captureRoutes(H, app.trees[l], reverseMethodLookup[l])>>
         \o treeCaptures(H, l + 1)

RECURSIVE routesFrom(_, _, _)
\* for l, t := range a.trees { r = append(r, t.captureRoutes(m)...) } with
\* the trees yielded in the order ls: the slices r can end as, caps[l + 1]
\* being what the tree of l can return
routesFrom(caps, ls, r) ==
    IF Len(ls) = 0 THEN {r}
    ELSE UNION {routesFrom(caps, Tail(ls), r \o c) : c \in caps[Head(ls) + 1]}

\* (a *App) Routes(): the slices it can return, each sorted by slices.Sort.
\* `range a.trees` yields the trees in any order; a tree without routes
\* appends nothing wherever it comes, so the outcomes are those of the
\* orders of the trees that hold routes
Routes(H) ==
    LET caps == treeCaptures(H, 0)
        busy == {l \in 0..(maxTrees - 1) : caps[l + 1] # {<<>>}}
    IN  {SortSeq(r, StrLess) :
            r \in UNION {routesFrom(caps, ls, <<>>) : ls \in rangeOrders(busy)}}

----------------------------------------------------------------------------
(* Specification Spec: app := New(); router := app.Router("/"), then       *)
(* registrations of overlapping literal, parameter and catch-all patterns  *)
(* in the GET and POST buckets, and requests.                              *)

Init == NewRouted(defaultAppConfig, <<"/">>, <<>>)

GetPatterns ==
    {<<"/", "a">>,
     <<"/", "a", "b", "c">>,
     <<"/", "a", "/", "b">>,
     <<"/", "a", "/", ":", "x">>,
     <<"/", "a", "/", "*">>,
     <<"/", ":", "x">>}

PostPatterns ==
    {<<"/", "a">>,
     <<"/", "a", "/", ":", "x">>}

RoutePaths ==
    {<<"/", "a">>,
     <<"/", "a", "/">>,
     <<"/", "a", "b">>,
     <<"/", "a", "b", "d">>,
     <<"/", "a", "b", "c">>,
     <<"/", "a", "/", "b">>,
     <<"/", "a", "/", "c">>,
     <<"/", "a", "/", "b", "c">>,
     <<"/", "a", "/", "b", "/", "c">>,
     <<"/", "c">>}

RegisterGet == \E p \in GetPatterns : Handle(1, mGET, p, <<>>)

RegisterPost == \E p \in PostPatterns : Handle(1, mPOST, p, <<>>)

Serve == \E m \in {"GET", "POST"}, p \in RoutePaths : ServeHTTP(Req(m, p))

\* app.NotFound(custom): the custom handler is user handler 0
CustomNotFound == NotFound(0)

Next == RegisterGet \/ RegisterPost \/ Serve \/ CustomNotFound

Spec == Init /\ [][Next]_vars

----------------------------------------------------------------------------
(* Specification SpecPriority: the three routes of the priority rule,      *)
(* (GET, /a/b), (GET, /a/:x) and (GET, /a/[star]), registered in any order *)
(* and any number of times, and GET requests below /a.                     *)

LitRoute == <<"/", "a", "/", "b">>

ParamRoute == <<"/", "a", "/", ":", "x">>

CatchRoute == <<"/", "a", "/", "*">>

PriorityPatterns == {LitRoute, ParamRoute, CatchRoute}

PriorityPaths ==
    {<<"/", "a">>,
     <<"/", "a", "/", "b">>,
     <<"/", "a", "/", "c">>,
     <<"/", "a", "/", "b", "c">>,
     <<"/", "a", "/", "c", "/", "d">>,
     <<"/", "a", "/", "b", "/", "c">>,
     <<"/", "b", "/", "c">>}

PriorityRegister == \E p \in PriorityPatterns : Handle(1, mGET, p, <<>>)

PriorityServe == \E p \in PriorityPaths : ServeHTTP(Req("GET", p))

PriorityNext == PriorityRegister \/ PriorityServe

SpecPriority == Init /\ [][PriorityNext]_vars

----------------------------------------------------------------------------
(* What the statements below are measured against: routes and requests     *)
(* read segment by segment, as the specification words them.               *)

\* the segments of a cleaned pattern or of a request path
Segs(path) == Split(From(path, 1))

IsParamSeg(seg) == seg # <<>> /\ seg[1] = ":"

IsCatchSeg(seg) == seg # <<>> /\ seg[1] = "*"

IsLiteralSeg(seg) == ~IsParamSeg(seg) /\ ~IsCatchSeg(seg)

IsLiteralPattern(pat) == \A i \in 1..Len(Segs(pat)) : IsLiteralSeg(Segs(pat)[i])

RECURSIVE SegsMatch(_, _)
\* pattern segments ps match request segments rs: a literal matches itself,
\* a parameter one non-empty segment, a final catch-all a non-empty remainder
SegsMatch(ps, rs) ==
    IF Len(ps) = 0 THEN Len(rs) = 0
    ELSE IF IsCatchSeg(Head(ps))
    THEN Len(ps) = 1 /\ Len(rs) >= 1 /\ Head(rs) # <<>>
    ELSE IF Len(rs) = 0 THEN FALSE
    ELSE IF IsParamSeg(Head(ps))
    THEN Head(rs) # <<>> /\ SegsMatch(Tail(ps), Tail(rs))
    ELSE Head(ps) = Head(rs) /\ SegsMatch(Tail(ps), Tail(rs))

\* a request path is read without its trailing slash
Matches(pat, path) == SegsMatch(Segs(pat), Segs(<<"/">> \o TrimSuffix(From(path, 1))))

\* the parameter map a match yields: each :name bound to its segment, "*"
\* to the remainder with its interior slashes
Bindings(pat, path) ==
    LET ps == Segs(pat)
        rs == Segs(path)
        dyn == {i \in 1..Len(ps) : ~IsLiteralSeg(ps[i])}
        key(i) == IF IsCatchSeg(ps[i]) THEN <<"*">> ELSE Tail(ps[i])
        val(i) == IF IsCatchSeg(ps[i]) THEN Join(SubSeq(rs, i, Len(rs)))
                  ELSE rs[i]
    IN  [k \in {key(i) : i \in dyn} |-> val(CHOOSE i \in dyn : key(i) = k)]

\* registration i is live: no later registration of the same method and path
Live(i) ==
    /\ i \in 1..Len(regs)
    /\ \A j \in (i + 1)..Len(regs) :
          ~(regs[j].method = regs[i].method /\ regs[j].path = regs[i].path)

\* the live registration of (m, pat), 0 when there is none
LiveReg(m, pat) ==
    IF \E i \in 1..Len(regs) : Live(i) /\ regs[i].method = m /\ regs[i].path = pat
    THEN CHOOSE i \in 1..Len(regs) :
            Live(i) /\ regs[i].method = m /\ regs[i].path = pat
    ELSE 0

Served == last.op = "Serve"

\* the last request was answered by route handler number id, and by no other
RanHandler(id) ==
    /\ last.resp.via = "route"
    /\ \A k \in 1..Len(last.resp.events) :
          last.resp.events[k][1] = "handler" => last.resp.events[k][2] = id
    /\ \E k \in 1..Len(last.resp.events) : last.resp.events[k] = <<"handler", id>>

\* the last request was answered by the route registered as regs[i], with
\* the parameter map pm
AnsweredBy(i, pm) ==
    /\ RanHandler(regs[i].id)
    /\ last.resp.fullPath = regs[i].path
    /\ last.resp.params = pm

HasParamSeg(pat) == \E i \in 1..Len(Segs(pat)) : IsParamSeg(Segs(pat)[i])

HasCatchSeg(pat) == \E i \in 1..Len(Segs(pat)) : IsCatchSeg(Segs(pat)[i])

\* the bucket the last request is looked up in
Bucket == methodLookup[last.req.method]

\* a live literal route of the request's bucket is the request path itself
LiteralRouteMatches ==
    \E j \in 1..Len(regs) :
        /\ Live(j)
        /\ regs[j].method = Bucket
        /\ IsLiteralPattern(regs[j].path)
        /\ Matches(regs[j].path, last.req.path)

\* all three routes of the priority rule are registered
AllThree == \A p \in PriorityPatterns : LiveReg(mGET, p) # 0

----------------------------------------------------------------------------
(* C1..C4: parameter extraction and priority *)

\* C1: a request that matches a registered pattern with :name segments
\* segment by segment, and no literal route, is answered by that pattern's
\* handler with exactly the names bound to the matched segments, whatever
\* other routes are registered in the bucket.
C1_ParamExtraction ==
    Served =>
        \A i \in 1..Len(regs) :
            ( /\ Live(i)
              /\ regs[i].method = Bucket
              /\ HasParamSeg(regs[i].path)
              /\ ~HasCatchSeg(regs[i].path)
              /\ Matches(regs[i].path, last.req.path)
              /\ ~LiteralRouteMatches )
            => AnsweredBy(i, Bindings(regs[i].path, last.req.path))

\* C2: with (GET, /a/b), (GET, /a/:x) and the catch-all below /a registered,
\* GET /a/b is answered by the literal route and GET /a/c by the parameter
\* route with {x: "c"}: literal first, then parameter, then catch-all.
C2_Priority ==
    (Served /\ AllThree) =>
        /\ last.req.path = <<"/", "a", "/", "b">>
              => AnsweredBy(LiveReg(mGET, LitRoute), EmptyMap)
        /\ last.req.path = <<"/", "a", "/", "c">>
              => AnsweredBy(LiveReg(mGET, ParamRoute), <<"x">> :> <<"c">>)

C2_Witness ==
    /\ Served
    /\ AllThree
    /\ last.req.path = <<"/", "a", "/", "c">>
    /\ last.resp.via = "route"
    /\ regs[1].path = CatchRoute

\* C3: with the same three routes registered in any order, GET /a/c/d is
\* answered by the catch-all route with {"*": "c/d"}.
C3_CatchAllBesideParam ==
    (Served /\ AllThree /\ last.req.path = <<"/", "a", "/", "c", "/", "d">>)
        => AnsweredBy(LiveReg(mGET, CatchRoute), <<"*">> :> <<"c", "/", "d">>)

\* C4: a request that extends the prefix of a registered catch-all pattern
\* by a non-empty remainder is answered by that route with "*" bound to the
\* whole remainder, also when literal routes with the same prefix are
\* registered beside it (stated for buckets without parameter routes, and
\* for requests that are not themselves a registered literal route).
C4_CatchAllRemainder ==
    Served =>
        \A i \in 1..Len(regs) :
            ( /\ Live(i)
              /\ regs[i].method = Bucket
              /\ HasCatchSeg(regs[i].path)
              /\ Matches(regs[i].path, last.req.path)
              /\ \A j \in 1..Len(regs) : ~HasParamSeg(regs[j].path)
              /\ ~LiteralRouteMatches )
            => AnsweredBy(i, Bindings(regs[i].path, last.req.path))

----------------------------------------------------------------------------
(* C5, C9: misses and overrides, under Spec *)

\* a path without its separators
Squash(path) == SelectSeq(path, LAMBDA c : c # "/")

\* C5: a request with a known method whose path matches no pattern of its
\* bucket is answered by the not-found handler (default or installed), and
\* no route handler runs.  Stated for buckets that hold literal routes only
\* and for request paths that differ from every route of the bucket in more
\* than their separators: the paths that run past a terminal into a literal
\* edge, or end inside one.
C5_NoMatchNotFound ==
    ( /\ Served
      /\ last.req.method \in DOMAIN methodLookup
      /\ \A i \in 1..Len(regs) :
            regs[i].method = Bucket =>
                /\ IsLiteralPattern(regs[i].path)
                /\ ~Matches(regs[i].path, last.req.path)
                /\ Squash(regs[i].path) # Squash(last.req.path) )
    => /\ last.resp.via = "notFound"
       /\ last.resp.events = Call(app.notFound)

\* "METHOD PATH" as Routes() lists it
Entry(m, pat) == reverseMethodLookup[m] \o <<" ">> \o pat

Count(seq, x) == Cardinality({k \in 1..Len(seq) : seq[k] = x})

\* C9: after the same (method, pattern) is registered twice the route table
\* holds exactly one entry for it, and a matching request runs the second
\* handler only.
C9_Override ==
    \A i, j \in 1..Len(regs) :
        ( /\ i < j
          /\ Live(j)
          /\ regs[i].method = regs[j].method
          /\ regs[i].path = regs[j].path )
        => /\ \A r \in Routes(Heap) :
                 Count(r, Entry(regs[j].method, regs[j].path)) = 1
           /\ ( /\ Served
                /\ last.req.method \in DOMAIN methodLookup
                /\ Bucket = regs[j].method
                /\ last.req.path = regs[j].path
                /\ IsLiteralPattern(regs[j].path) )
              => RanHandler(regs[j].id)

----------------------------------------------------------------------------
(* Specification SpecGroups: app := New(); app.Router("/api", ...), a      *)
(* chain of groups /v1, /admin below it, GET /settings bound on the        *)
(* innermost router so far, and GET requests.                              *)

InitGroups == New(defaultAppConfig)

ApiPath == <<"/", "a", "p", "i">>

V1Path == <<"/", "v", "1">>

AdminPath == <<"/", "a", "d", "m", "i", "n">>

SettingsPath == <<"/", "s", "e", "t", "t", "i", "n", "g", "s">>

FullSettings == ApiPath \o V1Path \o AdminPath \o SettingsPath

GroupPaths ==
    {FullSettings,
     FullSettings \o <<"/">>,
     ApiPath \o V1Path \o SettingsPath,
     ApiPath \o SettingsPath,
     Tail(ApiPath \o V1Path) \o Tail(AdminPath) \o Tail(SettingsPath),
     <<"/">> \o Tail(ApiPath) \o Tail(V1Path) \o Tail(AdminPath) \o Tail(SettingsPath),
     SettingsPath}

GroupsRouter ==
    /\ routers = <<>>
    /\ \E mws \in {<<>>, <<1, 2>>} : Router(ApiPath, mws)

GroupsGroup ==
    /\ routers # <<>>
    /\ \E mws \in {<<>>, <<3>>} :
          Group(Len(routers), IF Len(routers) = 1 THEN V1Path ELSE AdminPath, mws)

GroupsHandle ==
    /\ routers # <<>>
    /\ \E own \in {<<>>, <<4>>} : Handle(Len(routers), mGET, SettingsPath, own)

GroupsServe == \E p \in GroupPaths : ServeHTTP(Req("GET", p))

GroupsNext == GroupsRouter \/ GroupsGroup \/ GroupsHandle \/ GroupsServe

SpecGroups == InitGroups /\ [][GroupsNext]_vars

----------------------------------------------------------------------------
(* C6..C8: groups and middleware order, under SpecGroups *)

\* C6: GET /settings bound through the chain /api -> /v1 -> /admin is
\* reached by GET /api/v1/admin/settings and by no other path (a trailing
\* slash apart).
C6_GroupPrefix ==
    Served =>
        \A i \in 1..Len(regs) :
            (Live(i) /\ Len(regs[i].chain) = 3) =>
                /\ regs[i].path = FullSettings
                /\ last.req.path = FullSettings => RanHandler(regs[i].id)
                /\ RanHandler(regs[i].id)
                      => last.req.path \in {FullSettings, FullSettings \o <<"/">>}

RECURSIVE Flatten(_)
Flatten(ss) == IF Len(ss) = 0 THEN <<>> ELSE Head(ss) \o Flatten(Tail(ss))

\* the middlewares entered while the last request was served, in order
Entered ==
    LET ev == SelectSeq(last.resp.events, LAMBDA e : e[1] = "enter")
    IN  [k \in 1..Len(ev) |-> ev[k][2]]

\* C7: a route registered on a group runs the middlewares of the parent
\* routers first, then the group's, then the route's own.
C7_GroupMiddleware ==
    Served =>
        \A i \in 1..Len(regs) :
            RanHandler(regs[i].id)
                => Entered = Flatten(regs[i].chain) \o regs[i].own

\* the onion around handler id: enter m1..mN, the handler, exit mN..m1
Onion(ms, id) ==
    [k \in 1..Len(ms) |-> <<"enter", ms[k]>>]
    \o <<<<"handler", id>>>>
    \o [k \in 1..Len(ms) |-> <<"exit", ms[Len(ms) + 1 - k]>>]

\* C8: a request to a route with middleware list [m1..mN] around h produces
\* enter m1, ..., enter mN, h, exit mN, ..., exit m1, each exactly once.
C8_MiddlewareOrder ==
    Served =>
        \A i \in 1..Len(regs) :
            RanHandler(regs[i].id)
                => last.resp.events = Onion(regs[i].mws, regs[i].id)

C8_Witness ==
    /\ Served
    /\ \E i \in 1..Len(regs) :
          /\ RanHandler(regs[i].id)
          /\ regs[i].mws = <<1, 2, 4>>
          /\ last.resp.events = Onion(<<1, 2, 4>>, regs[i].id)

----------------------------------------------------------------------------
(* Specification SpecValidate: app := New(); router := app.Router("/"),    *)
(* then GET registrations of malformed and of well-formed patterns, and    *)
(* GET requests.                                                           *)

InvalidPatterns ==
    {<<"/", "a", "/", ":", "x", "/", ":", "y">>,
     <<"/", "a", "/", ":", "x", "/", "*">>,
     <<"/", "a", "/", "*", "/", "b">>,
     <<"/", "a", "/", ":", "x", "/", "b", "/", ":", "x">>,
     <<"/", "a", "/", ":", "1", "x">>,
     <<"/", "a", "/", ":", "x", "@">>,
     <<"/", "a", "/", ":">>,
     <<"/", "a", "/", "*", "f">>}

ValidPatterns ==
    {<<"/", "a", "/", ":", "x", "/", "b", "/", ":", "y">>,
     <<"/", "a", "/", "*">>}

ValidatePaths ==
    {<<"/", "a", "/", ":">>,
     <<"/", "a", "/", "*", "f">>,
     <<"/", "a", "/", ":", "x", "/", ":", "y">>,
     <<"/", "a", "/", "c", "/", "b", "/", "d">>}

ValidateRegister ==
    \E p \in InvalidPatterns \cup ValidPatterns : Handle(1, mGET, p, <<>>)

ValidateServe == \E p \in ValidatePaths : ServeHTTP(Req("GET", p))

ValidateNext == ValidateRegister \/ ValidateServe

SpecValidate == Init /\ [][ValidateNext]_vars

----------------------------------------------------------------------------
(* C10: malformed patterns, under SpecValidate *)

\* [A-Za-z_][A-Za-z0-9_]*
NameOK(name) ==
    /\ name # <<>>
    /\ \A k \in 1..Len(name) :
          \/ name[k] \in Letters
          \/ name[k] = "_"
          \/ (k > 1 /\ name[k] \in Digits)

\* a cleaned pattern is well-formed: no two adjacent non-literal segments,
\* a catch-all only as the last segment and only as the bare star, unique
\* and well-formed parameter names
WellFormed(pat) ==
    LET ps == Segs(pat)
    IN  /\ \A i \in 1..(Len(ps) - 1) :
              ~(~IsLiteralSeg(ps[i]) /\ ~IsLiteralSeg(ps[i + 1]))
        /\ \A i \in 1..Len(ps) :
              IsCatchSeg(ps[i]) => (i = Len(ps) /\ ps[i] = <<"*">>)
        /\ \A i \in 1..Len(ps) : IsParamSeg(ps[i]) => NameOK(Tail(ps[i]))
        /\ \A i, j \in 1..Len(ps) :
              (i # j /\ IsParamSeg(ps[i])) => ps[i] # ps[j]

RECURSIVE Reach(_, _)
\* the nodes of the trie below (and including) node n
Reach(H, n) ==
    LET m == H.maps[H.nodes[n].children]
        kids == {m[c] : c \in DOMAIN m}
                \cup ({H.nodes[n].special[k] : k \in 0..catchAll} \ {Nil})
    IN  {n} \cup UNION {Reach(H, c) : c \in kids}

\* every method's trie: its nodes with their children maps
Tries(H) ==
    [n \in UNION {Reach(H, app.trees[m]) : m \in 0..(maxTrees - 1)} |->
        [node |-> H.nodes[n], children |-> H.maps[H.nodes[n].children]]]

\* the answers to the GET requests of ValidatePaths
Answers(H) == [p \in ValidatePaths |-> internalHandler(H, Req("GET", p))]

\* a step that registers a malformed pattern
RegistersMalformed ==
    /\ regs' # regs
    /\ ~WellFormed(regs'[Len(regs')].path)

HeapAfter == [nodes |-> nodes', maps |-> maps']

\* C10: registering a malformed pattern changes no trie and no entry of the
\* route table, the pattern is not listed, and requests are answered as
\* before; while only malformed patterns were registered every request is
\* answered 404.
C10_InvalidNoOp ==
    [][ /\ RegistersMalformed =>
              /\ Tries(HeapAfter) = Tries(Heap)
              /\ Routes(HeapAfter) = Routes(Heap)
              /\ \A r \in Routes(HeapAfter) :
                    Count(r, Entry(mGET, regs'[Len(regs')].path)) = 0
              /\ Answers(HeapAfter) = Answers(Heap)
        /\ (Served' /\ \A i \in 1..Len(regs') : ~WellFormed(regs'[i].path))
              => (last'.resp.via = "notFound"
                  /\ last'.resp.status = StatusNotFound) ]_vars

C10_Witness ==
    /\ Len(regs) = 3
    /\ WellFormed(regs[1].path)
    /\ WellFormed(regs[2].path)
    /\ ~WellFormed(regs[3].path)
    /\ \A r \in Routes(Heap) : Len(r) = 2
    /\ last.op = "Handle"

----------------------------------------------------------------------------
(* C11: the route listing, under Spec *)

\* a sequence of strings is in ascending byte order
Sorted(seq) == \A k \in 1..(Len(seq) - 1) : ~StrLess(seq[k + 1], seq[k])

\* C11: Routes() is sorted and lists every registered (method, pattern)
\* exactly once, whatever the shape of the pattern (every pattern of the
\* menus of Spec is valid, so every registration is a successful one).
C11_RoutesListing ==
    \A r \in Routes(Heap) :
        /\ Sorted(r)
        /\ \A i \in 1..Len(regs) :
              Count(r, Entry(regs[i].method, regs[i].path)) = 1

----------------------------------------------------------------------------
(* Specification SpecDispatch: app := New(cfg) with AllowTrace false or    *)
(* true; router := app.Router("/"); registrations of /a in the GET and     *)
(* WebSocket buckets and of /a/:x in the GET bucket; app.NotAllowed(custom);*)
(* requests of every kind of method, with and without upgrade headers.     *)

InitDispatch ==
    \E trace \in BOOLEAN : NewRouted([AllowTrace |-> trace], <<"/">>, <<>>)

\* r.Get, r.Websocket with their patterns
DispatchRoutes ==
    {[m |-> mGET, p |-> <<"/", "a">>],
     [m |-> mGET, p |-> <<"/", "a", "/", ":", "x">>],
     [m |-> mWEBSOCKET, p |-> <<"/", "a">>]}

DispatchMethods == {"GET", "HEAD", "POST", "FOO", "WS", "TRACE", "OPTIONS"}

DispatchPaths == {<<"/", "a">>, <<"/", "a", "/", "c">>}

upgrade == <<"u", "p", "g", "r", "a", "d", "e">>

\* the values of the Connection and Upgrade headers: absent, a WebSocket
\* handshake, one that spells the token WebSocket, another protocol, an
\* Upgrade header beside Connection: keep-alive
DispatchHeaders ==
    {[connection |-> <<>>, upgrade |-> <<>>],
     [connection |-> upgrade, upgrade |-> websocket],
     [connection |-> upgrade,
      upgrade |-> <<"W", "e", "b", "S", "o", "c", "k", "e", "t">>],
     [connection |-> upgrade, upgrade |-> <<"h", "2", "c">>],
     [connection |-> <<"k", "e", "e", "p", "-", "a", "l", "i", "v", "e">>,
      upgrade |-> websocket]}

DispatchRegister == \E rt \in DispatchRoutes : Handle(1, rt.m, rt.p, <<>>)

DispatchServe ==
    \E m \in DispatchMethods, p \in DispatchPaths, h \in DispatchHeaders :
        ServeHTTP([connection |-> h.connection, method |-> m,
                   path |-> p, upgrade |-> h.upgrade])

\* app.NotAllowed(custom): the custom handler is the user handler after the
\* ones of the routes
DispatchNotAllowed == NotAllowed(MaxRegs + 1)

DispatchNext == DispatchRegister \/ DispatchServe \/ DispatchNotAllowed

SpecDispatch == InitDispatch /\ [][DispatchNext]_vars

----------------------------------------------------------------------------
(* C12..C16: method dispatch, under SpecDispatch *)

RouteMethods == {"GET", "HEAD", "POST", "PUT", "PATCH", "DELETE"}

\* the request is a WebSocket handshake: Connection: upgrade and
\* Upgrade: websocket in any letter case
IsUpgrade(r) ==
    /\ r.connection = upgrade
    /\ Len(r.upgrade) = Len(websocket)
    /\ \A i \in 1..Len(websocket) : ToLower(r.upgrade[i]) = websocket[i]

\* the last request was answered by the not-allowed handler (the default,
\* which writes 405, or the one installed with NotAllowed) and nothing else
NotAllowedOnly ==
    /\ last.resp.via = "notAllowed"
    /\ last.resp.events = Call(app.notAllowed)
    /\ app.notAllowed = notAllowed => last.resp.status = StatusMethodNotAllowed

\* C12: a request whose method is none of GET, HEAD, POST, PUT, PATCH,
\* DELETE, and that is not OPTIONS, not an enabled TRACE and not a WebSocket
\* handshake, is answered by the not-allowed handler with 405.
C12_UnknownMethod ==
    ( /\ Served
      /\ last.req.method \notin RouteMethods
      /\ last.req.method # "OPTIONS"
      /\ ~(last.req.method = "TRACE" /\ app.cfg.AllowTrace)
      /\ ~IsUpgrade(last.req) )
    => NotAllowedOnly

\* the answer to the last request, had its method been m
AnswerAs(m) == internalHandler(Heap, [last.req EXCEPT !.method = m])

\* C13: a HEAD request is answered as the GET request for the same path
\* and headers is: the same endpoint with the same parameter map, or 404.
C13_HeadAliasesGet ==
    (Served /\ last.req.method = "HEAD") => last.resp = AnswerAs("GET")

C13_Witness ==
    /\ Served
    /\ last.req.method = "HEAD"
    /\ last.req.connection = <<>>
    /\ last.resp.via = "route"
    /\ last.resp.fullPath = <<"/", "a", "/", ":", "x">>
    /\ last.resp.params = [k \in {<<"x">>} |-> <<"c">>]
    /\ \E i \in 1..Len(regs) : regs[i].method = mWEBSOCKET

\* the last request was resolved in the trie of bucket m: answered by the
\* endpoint find returns there, with its parameter map, or by not-found
LookedUpIn(m) ==
    LET f == find(Heap, app.trees[m], last.req.path)
    IN  IF f.e = NoEndpoint
        THEN /\ last.resp.via = "notFound"
             /\ last.resp.events = Call(app.notFound)
        ELSE /\ last.resp.via = "route"
             /\ last.resp.fullPath = f.e.fullPath
             /\ last.resp.events = Call(f.e.fn)
             /\ last.resp.params = f.pMap

\* C14 as stated: a WebSocket handshake is looked up in the WebSocket
\* bucket, whatever its request-line method.
C14_UpgradeAnyMethod ==
    (Served /\ IsUpgrade(last.req)) => LookedUpIn(mWEBSOCKET)

\* C14, amended: a WebSocket handshake is looked up in the WebSocket bucket
\* for every request-line method except OPTIONS and an enabled TRACE, which
\* are answered by their shortcuts before the headers are read.
C14_UpgradeToWebsocket ==
    ( /\ Served
      /\ IsUpgrade(last.req)
      /\ last.req.method # "OPTIONS"
      /\ ~(last.req.method = "TRACE" /\ app.cfg.AllowTrace) )
    => LookedUpIn(mWEBSOCKET)

\* a POST handshake that spells the token WebSocket runs the handler of the
\* Websocket route while a GET route of the same path is registered
C14_Witness ==
    /\ Served
    /\ last.req.method = "POST"
    /\ last.req.upgrade # websocket
    /\ IsUpgrade(last.req)
    /\ last.req.path = <<"/", "a">>
    /\ LiveReg(mGET, <<"/", "a">>) # 0
    /\ LiveReg(mWEBSOCKET, <<"/", "a">>) # 0
    /\ RanHandler(regs[LiveReg(mWEBSOCKET, <<"/", "a">>)].id)

\* the request carries a Connection header and Upgrade: websocket
HasUpgradeHeaders(r) ==
    /\ r.connection # <<>>
    /\ Len(r.upgrade) = Len(websocket)
    /\ \A i \in 1..Len(websocket) : ToLower(r.upgrade[i]) = websocket[i]

Reflected == last.resp.via = "trace"

\* C15: a TRACE request is answered by the reflect-request handler if and
\* only if AllowTrace is true; with AllowTrace false every TRACE request
\* ends in the not-allowed handler.
C15_TraceIffAllowed ==
    Served =>
        /\ Reflected <=> (last.req.method = "TRACE" /\ app.cfg.AllowTrace)
        /\ (last.req.method = "TRACE" /\ ~app.cfg.AllowTrace) => NotAllowedOnly

\* C15 for the TRACE requests that are not a WebSocket handshake (a handshake
\* goes to the WebSocket bucket whatever its method): with AllowTrace false
\* they end in the not-allowed handler
C15_TraceUnlessHandshake ==
    Served =>
        /\ Reflected <=> (last.req.method = "TRACE" /\ app.cfg.AllowTrace)
        /\ ( /\ last.req.method = "TRACE"
             /\ ~app.cfg.AllowTrace
             /\ ~IsUpgrade(last.req) ) => NotAllowedOnly

\* C15 for the TRACE requests that do not carry both a Connection header and
\* Upgrade: websocket: there the code does what the claim says
C15_TraceUnlessUpgrade ==
    Served =>
        /\ Reflected <=> (last.req.method = "TRACE" /\ app.cfg.AllowTrace)
        /\ ( /\ last.req.method = "TRACE"
             /\ ~app.cfg.AllowTrace
             /\ ~HasUpgradeHeaders(last.req) ) => NotAllowedOnly

\* a TRACE request with another protocol's upgrade headers, AllowTrace
\* false, routes registered for its path: 405
C15_Witness ==
    /\ Served
    /\ last.req.method = "TRACE"
    /\ ~app.cfg.AllowTrace
    /\ last.req.upgrade = <<"h", "2", "c">>
    /\ LiveReg(mGET, last.req.path) # 0
    /\ LiveReg(mWEBSOCKET, last.req.path) # 0
    /\ NotAllowedOnly

\* C16: every OPTIONS request is answered by the app's options handler and
\* by nothing else, whatever its path, its headers and the routes; the
\* default options handler writes nothing (the status stays 200).
C16_OptionsShortcut ==
    (Served /\ last.req.method = "OPTIONS")
    => /\ last.resp.via = "options"
       /\ last.resp.events = Call(app.options)
       /\ last.resp.params = EmptyMap
       /\ app.options = options
            => /\ last.resp.events = <<<<"options", 0>>>>
               /\ last.resp.status = StatusOK

\* an OPTIONS handshake for a path that has a GET and a Websocket route
C16_Witness ==
    /\ Served
    /\ last.req.method = "OPTIONS"
    /\ IsUpgrade(last.req)
    /\ LiveReg(mGET, last.req.path) # 0
    /\ LiveReg(mWEBSOCKET, last.req.path) # 0
    /\ last.resp.via = "options"

----------------------------------------------------------------------------
(* Specification SpecListen: app := New(); the configuration phase, with   *)
(* one app.Router("/", ...), one Group("/v1", m3), GET /a routes on either *)
(* with or without a route middleware, app.NotFound(custom) and            *)
(* app.NotAllowed(custom); then                                            *)
(* app.Listen, once; requests before and after.                            *)

Listening == app.server # Nil

ListenPaths == {<<"/", "a">>, <<"/", "v", "1", "/", "a">>, <<"/", "z">>}

ListenRouter ==
    /\ ~Listening
    /\ routers = <<>>
    /\ \E mws \in {<<>>, <<1, 2>>} : Router(<<"/">>, mws)

ListenGroup ==
    /\ ~Listening
    /\ Len(routers) = 1
    /\ Group(1, V1Path, <<3>>)

ListenHandle ==
    /\ ~Listening
    /\ \E r \in 1..Len(routers), own \in {<<>>, <<4>>} :
          Handle(r, mGET, <<"/", "a">>, own)

ListenNotFound == ~Listening /\ NotFound(0)

\* app.NotAllowed(custom): the custom handler is the user handler after the
\* ones of the routes
ListenNotAllowed == ~Listening /\ NotAllowed(MaxRegs + 1)

ListenStart == ~Listening /\ Listen

ListenServe ==
    \E m \in {"GET", "FOO", "OPTIONS"}, p \in ListenPaths : ServeHTTP(Req(m, p))

ListenNext ==
    \/ ListenRouter
    \/ ListenGroup
    \/ ListenHandle
    \/ ListenNotFound
    \/ ListenNotAllowed
    \/ ListenStart
    \/ ListenServe

SpecListen == InitGroups /\ [][ListenNext]_vars

----------------------------------------------------------------------------
(* C17: the fallbacks after Listen, under SpecListen *)

RECURSIVE Core(_)
\* the handler at the centre of a chain
Core(h) == IF h.kind = "chain" THEN Core(h.next) ELSE h

\* the events of the middlewares ms, leftmost outermost, around the events c
Around(ms, c) ==
    [k \in 1..Len(ms) |-> <<"enter", ms[k]>>]
    \o c
    \o [k \in 1..Len(ms) |-> <<"exit", ms[Len(ms) + 1 - k]>>]

\* the fallback that answers a request the router answers `via`
Fallback(via) ==
    CASE via = "notFound" -> app.notFound
      [] via = "notAllowed" -> app.notAllowed
      [] via = "options" -> app.options

\* C17: once Listen was called, a 404, 405 or OPTIONS response runs the
\* root router's middlewares, each once and in onion order, around the
\* fallback, and no middleware of a sub-group or of a route.
C17_ListenWrapsFallbacks ==
    ( /\ Listening
      /\ Served
      /\ last.resp.via \in {"notFound", "notAllowed", "options"} )
    => last.resp.events =
          Around(routers[app.rootRouter].mws, Call(Core(Fallback(last.resp.via))))

\* a 404 after Listen, root router with (m1, m2), a group with m3 and a
\* route with m4 registered, the custom not-found handler installed
C17_Witness ==
    /\ Listening
    /\ Served
    /\ last.resp.via = "notFound"
    /\ Len(routers) = 2
    /\ \E i \in 1..Len(regs) : regs[i].own = <<4>>
    /\ last.resp.events =
          <<<<"enter", 1>>, <<"enter", 2>>, <<"handler", 0>>,
            <<"exit", 2>>, <<"exit", 1>>>>

----------------------------------------------------------------------------
(* Specification SpecSlash: app := New(); router := app.Router("/"); GET   *)
(* registrations of patterns with and without a trailing slash, and GET    *)
(* requests with and without one.                                          *)

SlashPatterns ==
    {<<"/", "a">>,
     <<"/", "a", "/">>,
     <<"/", "a", "/", ":", "x">>,
     <<"/", "a", "/", ":", "x", "/">>,
     <<"/", ":", "x">>,
     <<"/", ":", "x", "/">>}

SlashPaths ==
    {<<"/", "a">>,
     <<"/", "a", "/">>,
     <<"/", "a", "/", "c">>,
     <<"/", "a", "/", "c", "/">>,
     <<"/", "c">>,
     <<"/", "c", "/">>}

SlashRegister == \E p \in SlashPatterns : Handle(1, mGET, p, <<>>)

SlashServe == \E p \in SlashPaths : ServeHTTP(Req("GET", p))

SlashNext == SlashRegister \/ SlashServe

SpecSlash == Init /\ [][SlashNext]_vars

----------------------------------------------------------------------------
(* C18: trailing slashes, under SpecSlash *)

\* a path without its trailing slash
NoSlash(p) ==
    IF Len(p) > 1 /\ p[Len(p)] = "/" THEN SubSeq(p, 1, Len(p) - 1) ELSE p

\* the endpoint side of an answer: which handler ran, for which pattern
EndpointOf(resp) ==
    [via |-> resp.via, fullPath |-> resp.fullPath, events |-> resp.events]

\* C18: when a pattern P and P with a trailing slash are both registered in
\* a bucket, the route table lists one route for them and a request for a
\* literal P runs the handler registered last; a request for X with a
\* trailing slash resolves to the same endpoint as the request for X.
C18_TrailingSlash ==
    /\ \A i, j \in 1..Len(regs) :
          ( /\ i < j
            /\ Live(j)
            /\ regs[i].method = regs[j].method
            /\ regs[i].given # regs[j].given
            /\ NoSlash(regs[i].given) = NoSlash(regs[j].given) )
          => /\ regs[i].path = regs[j].path
             /\ \A r \in Routes(Heap) :
                   Count(r, Entry(regs[j].method, regs[j].path)) = 1
             /\ ( /\ Served
                  /\ NoSlash(last.req.path) = regs[j].path
                  /\ IsLiteralPattern(regs[j].path) )
                => RanHandler(regs[j].id)
    /\ (Served /\ NoSlash(last.req.path) # last.req.path)
          => EndpointOf(last.resp)
               = EndpointOf(internalHandler(Heap,
                     [last.req EXCEPT !.path = NoSlash(last.req.path)]))

----------------------------------------------------------------------------
(* RequestID middlewares under every kind of configuration, serving       *)
(* requests with and without an incoming ID.                               *)

customHeader == "X-Correlation-ID"

customGenerator == generatorFunc("custom-id")

\* RequestID(), and RequestID(RequestIDConfig{...}) with each field set or not
RequestIDConfigs ==
    {<<>>} \cup {<<[Header |-> h, Generator |-> g]>> :
                    h \in {<<>>, <<customHeader>>},
                    g \in {nilGenerator, customGenerator}}

\* the ID headers of a request: absent, or carrying the ID "abc"
RequestIDHeaders == [{defaultReqIDHeader, customHeader} -> {"", "abc"}]

RequestIDMake == \E cfg \in RequestIDConfigs : RequestID(cfg)

RequestIDRequest ==
    \E k \in 1..Len(reqid.made) : \E hdrs \in RequestIDHeaders :
        RequestIDServe(k, hdrs)

RequestIDNext == RequestIDMake \/ RequestIDRequest

SpecRequestID == Init /\ [][RequestIDNext]_vars

\* requests served without an incoming ID by a middleware made by RequestID()
DefaultGenerated ==
    {i \in 1..Len(reqid.served) :
        /\ reqid.made[reqid.served[i].mw].cfg = <<>>
        /\ reqid.served[i].incoming = ""}

\* C19: with the default configuration a request without X-Request-ID gets
\* a newly generated ID, different from the ID of every other such request,
\* and that ID is the X-Request-ID response header and what GetRequestID
\* returns inside the handler
C19_DefaultRequestID ==
    /\ \A i \in DefaultGenerated :
          /\ reqid.served[i].read # ""
          /\ reqid.served[i].header = [name |-> defaultReqIDHeader,
                                       value |-> reqid.served[i].read]
    /\ \A i, j \in DefaultGenerated :
          i # j => reqid.served[i].read # reqid.served[j].read

\* requests served without an incoming ID by a middleware that was given a
\* Generator
CustomGenerated ==
    {i \in 1..Len(reqid.served) :
        LET made == reqid.made[reqid.served[i].mw]
        IN  /\ Len(made.cfg) > 0
            /\ made.cfg[1].Generator # nilGenerator
            /\ reqid.served[i].incoming = ""}

\* C20: with a Generator in the configuration a request without an incoming
\* ID gets the value the Generator returns, in the response header and from
\* GetRequestID
C20_CustomGenerator ==
    \A i \in CustomGenerated :
        LET g == reqid.made[reqid.served[i].mw].cfg[1].Generator
        IN  /\ reqid.served[i].read = g.result
            /\ reqid.served[i].header.value = g.result

----------------------------------------------------------------------------
(* ErrRecover middlewares under every kind of configuration, around        *)
(* handlers that return and handlers that panic.                           *)

customCb == cbFunc(1)

\* ErrRecover(), ErrRecover(ErrRecoverConfig{}) and
\* ErrRecover(ErrRecoverConfig{Cb: custom})
ErrRecoverConfigs == {<<>>, <<[Cb |-> nilCb]>>, <<[Cb |-> customCb]>>}

\* wrapped handlers: writing nothing or 200, then returning or panicking
NextHandlers ==
    [writes : {<<>>, <<StatusOK>>}, panics : BOOLEAN, v : {"boom"}]

ErrRecoverMake == \E cfg \in ErrRecoverConfigs : ErrRecover(cfg)

ErrRecoverRequest ==
    \E k \in 1..Len(recov.made) : \E next \in NextHandlers :
        ErrRecoverServe(k, next)

ErrRecoverNext == ErrRecoverMake \/ ErrRecoverRequest

SpecErrRecover == Init /\ [][ErrRecoverNext]_vars

\* the callback that applies to a configuration: its Cb when one is
\* configured, the default logging callback otherwise
AppliedCb(cfg) ==
    IF Len(cfg) > 0 /\ cfg[1].Cb # nilCb THEN cfg[1].Cb ELSE defaultCb

\* C21: for every configuration, a panic of the wrapped handler does not
\* leave the middleware, the callback that applies is called once with the
\* panic value and 500 is written; without a panic no callback is called
C21_ErrRecover ==
    \A i \in 1..Len(recov.served) :
        LET s == recov.served[i]
        IN  IF s.next.panics
            THEN /\ s.out.propagated = <<>>
                 /\ s.out.calls = <<[cb |-> AppliedCb(recov.made[s.mw].cfg),
                                     v |-> s.next.v]>>
                 /\ \E k \in 1..Len(s.out.writes) :
                       s.out.writes[k] = StatusInternalServerError
            ELSE s.out.calls = <<>>

----------------------------------------------------------------------------
(* Specification SpecRegister: app := New(); router := app.Router(prefix)  *)
(* with prefix / or /api, then registrations through each of Get, Post,    *)
(* Put, Patch, Delete and Websocket of patterns that clean to the root or  *)
(* below it.                                                               *)

RegisterPrefixes == {<<"/">>, ApiPath}

RegisterPatterns == {<<"/">>, <<>>, <<"/", "a">>, <<"/", ":", "x">>}

InitRegister ==
    \E prefix \in RegisterPrefixes : NewRouted(defaultAppConfig, prefix, <<>>)

RegisterGetRoute == \E p \in RegisterPatterns : Handle(1, mGET, p, <<>>)

RegisterPostRoute == \E p \in RegisterPatterns : Handle(1, mPOST, p, <<>>)

RegisterPutRoute == \E p \in RegisterPatterns : Handle(1, mPUT, p, <<>>)

RegisterPatchRoute == \E p \in RegisterPatterns : Handle(1, mPATCH, p, <<>>)

RegisterDeleteRoute == \E p \in RegisterPatterns : Handle(1, mDELETE, p, <<>>)

RegisterWebsocketRoute == \E p \in RegisterPatterns : Handle(1, mWEBSOCKET, p, <<>>)

RegisterNext ==
    \/ RegisterGetRoute
    \/ RegisterPostRoute
    \/ RegisterPutRoute
    \/ RegisterPatchRoute
    \/ RegisterDeleteRoute
    \/ RegisterWebsocketRoute

SpecRegister == InitRegister /\ [][RegisterNext]_vars

\* C22: every registration call completes without a runtime fault, whatever
\* the router prefix and the pattern, also when the full path cleans to "/"
C22_RegistrationNoFault == last.op = "Handle" => ~last.panic

----------------------------------------------------------------------------
(* C23: what insert writes through getTree's pointer, under Spec *)

\* a request path for a pattern: every parameter and catch-all segment
\* replaced by the segment v
Sample(pat) ==
    <<"/">> \o Join([i \in 1..Len(Segs(pat)) |->
                        IF IsLiteralSeg(Segs(pat)[i]) THEN Segs(pat)[i]
                        ELSE <<"v">>])

\* the last step registered a well-formed pattern in a bucket that holds no
\* other pattern
RegisteredAlone ==
    /\ last.op = "Handle"
    /\ ~last.panic
    /\ WellFormed(last.path)
    /\ \A i \in 1..Len(regs) :
          regs[i].method = last.method => regs[i].path = last.path

\* C23: after Handle on a valid pattern, also one whose first segment is a
\* parameter or a catch-all, the dispatcher's trie of the method holds the
\* endpoint: a lookup of a matching path finds it and Routes() lists it
C23_InsertVisible ==
    RegisteredAlone =>
        LET f == find(Heap, app.trees[last.method], Sample(last.path))
        IN  /\ f.e # NoEndpoint
            /\ f.e.fullPath = last.path
            /\ f.e.fn = userHandler(last.id)
            /\ \A r \in Routes(Heap) :
                  Count(r, Entry(last.method, last.path)) = 1

----------------------------------------------------------------------------
(* Specification SpecFallthrough: the literal route (GET, /a/bcd) beside   *)
(* the parameter and catch-all routes below /a and the route /a itself,    *)
(* registered in any order, and GET requests that match the literal edge   *)
(* fully, partly or not at all.                                            *)

BcdRoute == <<"/", "a", "/", "b", "c", "d">>

FallthroughPatterns == {BcdRoute, ParamRoute, CatchRoute, <<"/", "a">>}

FallthroughPaths ==
    {<<"/", "a", "/", "b", "x", "x">>,
     <<"/", "a", "/", "b", "c", "d">>,
     <<"/", "a", "/", "b", "c">>,
     <<"/", "a", "/", "x", "x">>,
     <<"/", "a">>}

FallthroughRegister == \E p \in FallthroughPatterns : Handle(1, mGET, p, <<>>)

FallthroughServe == \E p \in FallthroughPaths : ServeHTTP(Req("GET", p))

FallthroughNext == FallthroughRegister \/ FallthroughServe

SpecFallthrough == Init /\ [][FallthroughNext]_vars

\* C24: a request segment that matches a proper prefix of a literal edge and
\* then diverges is resolved by the parameter child, then by the catch-all
\* child, of the node where the literal edge starts: with (GET, /a/bcd)
\* registered, GET /a/bxx is answered by (GET, /a/:x) with {x: "bxx"} when
\* that route is registered, else by the catch-all route below /a when that
\* one is
C24_PartialEdgeFallthrough ==
    ( /\ Served
      /\ last.req.path = <<"/", "a", "/", "b", "x", "x">>
      /\ LiveReg(mGET, BcdRoute) # 0 )
    => /\ LiveReg(mGET, ParamRoute) # 0
            => AnsweredBy(LiveReg(mGET, ParamRoute), <<"x">> :> <<"b", "x", "x">>)
       /\ (LiveReg(mGET, ParamRoute) = 0 /\ LiveReg(mGET, CatchRoute) # 0)
            => AnsweredBy(LiveReg(mGET, CatchRoute), <<"*">> :> <<"b", "x", "x">>)

----------------------------------------------------------------------------
(* Specification SpecSplit: GET patterns that differ only in where the     *)
(* separator falls between literal characters, a pattern with a parameter  *)
(* between two literals, and GET requests for them.                        *)

SplitPatterns ==
    {<<"/", "a", "/", "b">>,
     <<"/", "a", "b">>,
     <<"/", "a", "/", ":", "x", "/", "b">>}

SplitPaths ==
    {<<"/", "a", "/", "b">>,
     <<"/", "a", "b">>,
     <<"/", "a", "/", "v", "/", "b">>}

SplitRegister == \E p \in SplitPatterns : Handle(1, mGET, p, <<>>)

SplitServe == \E p \in SplitPaths : ServeHTTP(Req("GET", p))

SplitNext == SplitRegister \/ SplitServe

SpecSplit == Init /\ [][SplitNext]_vars

RECURSIVE TokensFrom(_, _, _)
\* the tokens of a cleaned pattern: each run of consecutive literal segments
\* is one token that keeps the separators inside it, each parameter or
\* catch-all segment is a token of its own
TokensFrom(ps, run, out) ==
    IF Len(ps) = 0
    THEN IF run # <<>> THEN Append(out, Join(run)) ELSE out
    ELSE IF IsLiteralSeg(Head(ps))
    THEN TokensFrom(Tail(ps), Append(run, Head(ps)), out)
    ELSE TokensFrom(Tail(ps), <<>>,
                    Append(IF run # <<>> THEN Append(out, Join(run)) ELSE out,
                           Head(ps)))

Tokens(pat) == TokensFrom(Segs(pat), <<>>, <<>>)

\* C25: the splitter merges each run of consecutive literal segments into
\* one token that keeps the "/" between them (/a/b gives `a/b`, /a/:x/b
\* gives `a`, `:x`, `b`), so two literal patterns that differ only in where
\* "/" falls end at different terminal nodes: each keeps its own endpoint
C25_SplitKeepsSeparator ==
    /\ \A i \in 1..Len(regs) : splitPath(regs[i].path) = Tokens(regs[i].path)
    /\ \A i, j \in 1..Len(regs) :
          ( /\ Live(i)
            /\ Live(j)
            /\ regs[i].method = regs[j].method
            /\ regs[i].path # regs[j].path
            /\ IsLiteralPattern(regs[i].path)
            /\ IsLiteralPattern(regs[j].path) )
          => LET f == find(Heap, app.trees[regs[i].method], regs[i].path)
             IN  /\ f.e # NoEndpoint
                 /\ f.e.fullPath = regs[i].path
                 /\ f.e.fn = userHandler(regs[i].id)

----------------------------------------------------------------------------
(* Specification SpecEdgeSplit: GET patterns whose literal tokens diverge  *)
(* inside one another's edges (abc, abd, ab, a), with parameter and        *)
(* catch-all routes below them, registered in any order, and GET requests. *)

EdgePatterns ==
    {<<"/", "a", "b", "c">>,
     <<"/", "a", "b", "c", "/", ":", "x">>,
     <<"/", "a", "b", "c", "/", "*">>,
     <<"/", "a", "b", "d">>,
     <<"/", "a", "b">>,
     <<"/", "a", "/", ":", "y">>,
     <<"/", "a", "b", "c", "/", ":", "x", "/", "e", "/", ":", "z">>}

EdgePaths ==
    {<<"/", "a", "b", "c">>,
     <<"/", "a", "b", "c", "/", "v">>,
     <<"/", "a", "b", "c", "/", "v", "/", "w">>,
     <<"/", "a", "b", "d">>,
     <<"/", "a", "b">>,
     <<"/", "a", "/", "v">>,
     <<"/", "a", "b", "c", "/", "v", "/", "e", "/", "w">>}

EdgeRegister == \E p \in EdgePatterns : Handle(1, mGET, p, <<>>)

EdgeServe == \E p \in EdgePaths : ServeHTTP(Req("GET", p))

EdgeNext == EdgeRegister \/ EdgeServe

SpecEdgeSplit == Init /\ [][EdgeNext]_vars

\* the nodes whose prefix the step truncates
Truncated == {n \in 1..Len(nodes) : nodes'[n].prefix # nodes[n].prefix}

\* the step moved what node n held to a new tail node below it
MovedToTail(n) ==
    LET rem == From(nodes[n].prefix, Len(nodes'[n].prefix))
        tail == MapGet(maps'[nodes'[n].children], rem[1])
    IN  /\ nodes[n].prefix = nodes'[n].prefix \o rem
        /\ rem # <<>>
        /\ tail \in (Len(nodes) + 1)..Len(nodes')
        /\ nodes'[tail].nType = static
        /\ nodes'[tail].prefix = rem
        /\ maps'[nodes'[tail].children] = maps[nodes[n].children]
        /\ nodes'[tail].special = nodes[n].special
        /\ nodes'[tail].endpoint = nodes[n].endpoint

\* the kind of a segment in the priority order: literal, parameter, catch-all
Rank(seg) == IF IsCatchSeg(seg) THEN 2 ELSE IF IsParamSeg(seg) THEN 1 ELSE 0

\* pattern new is the higher-priority match among new and old: the same
\* pattern registered again, or the better kind at the first segment where
\* the kinds differ
Outranks(new, old) ==
    \/ new = old
    \/ \E k \in 1..Len(Segs(new)) :
          /\ k <= Len(Segs(old))
          /\ Rank(Segs(new)[k]) < Rank(Segs(old)[k])
          /\ \A j \in 1..(k - 1) : Rank(Segs(new)[j]) = Rank(Segs(old)[j])

\* the answer on heap H to GET p is that of the route registered as regs[i]
ResolvedBy(H, p, i) ==
    LET a == internalHandler(H, Req("GET", p))
    IN  /\ a.via = "route"
        /\ a.fullPath = regs[i].path
        /\ a.events = <<<<"handler", regs[i].id>>>>

\* C26: an insert that splits a literal edge moves the old node's literal
\* children, special children and endpoint unchanged to the tail node, which
\* hangs below the truncated node under the first byte of the tail prefix;
\* every route registered before still answers each request path it matched
\* with the same handler and parameters, unless the new pattern is the
\* higher-priority match for that path
C26_EdgeSplit ==
    [][ Truncated # {} =>
          /\ \A n \in Truncated : MovedToTail(n)
          /\ \A p \in EdgePaths : \A i \in 1..Len(regs) :
                (Matches(regs[i].path, p) /\ ResolvedBy(Heap, p, i))
                => \/ internalHandler(HeapAfter, Req("GET", p))
                        = internalHandler(Heap, Req("GET", p))
                   \/ /\ Matches(last'.path, p)
                      /\ Outranks(last'.path, regs[i].path) ]_vars

\* a split has moved an endpoint and a parameter child to the tail `c`
C26_Witness ==
    /\ last.op = "Handle"
    /\ \E t \in Reach(Heap, app.trees[mGET]) :
          /\ nodes[t].prefix = <<"c">>
          /\ nodes[t].special[param] # Nil
          /\ nodes[t].endpoint # NoEndpoint
    /\ ResolvedBy(Heap, <<"/", "a", "b", "c", "/", "v">>,
                  LiveReg(mGET, <<"/", "a", "b", "c", "/", ":", "x">>))

----------------------------------------------------------------------------
(* C27: when middleware functions are applied, under SpecGroups *)

RECURSIVE ComposedOnce(_, _)
\* each middleware of ms applied once to its next handler around h, the
\* innermost first
ComposedOnce(ms, h) ==
    IF Len(ms) = 0 THEN <<>>
    ELSE ComposedOnce(Tail(ms), h)
         \o <<[mw |-> Head(ms), next |-> chainMws(Tail(ms), h)]>>

\* C27: composition happens once per route, at registration: Handle applies
\* each middleware function of the route to its next handler exactly once,
\* and serving a request applies no middleware function to a handler
C27_ComposedAtRegistration ==
    /\ (last.op = "Handle" /\ ~last.panic)
          => last.applied = ComposedOnce(regs[Len(regs)].mws, userHandler(last.id))
    /\ Served => last.resp.applied = <<>>

----------------------------------------------------------------------------
(* C28, C29: invariants of the tries, under SpecEdgeSplit *)

RECURSIVE Below(_, _, _)
\* the nodes below (and including) n, each with the number of parameter and
\* catch-all edges on the path to it, d of them above n
Below(H, n, d) ==
    LET m == H.maps[H.nodes[n].children]
    IN  {<<n, d>>}
        \cup UNION {Below(H, m[c], d) : c \in DOMAIN m}
        \cup UNION {Below(H, H.nodes[n].special[k], d + 1) :
                        k \in {j \in 0..catchAll : H.nodes[n].special[j] # Nil}}

\* every node of every method's trie with its count of dynamic edges
Placed == UNION {Below(Heap, app.trees[m], 0) : m \in 0..(maxTrees - 1)}

\* C28: every terminal node's parameter-name list is as long as the number
\* of parameter and catch-all edges on the path from the root to it, and a
\* terminal catch-all node's last name is "*"
C28_ParamNamesLength ==
    \A nd \in Placed :
        LET e == nodes[nd[1]].endpoint
        IN  e # NoEndpoint =>
                /\ Len(e.pKeys) = nd[2]
                /\ nodes[nd[1]].nType = catchAll => e.pKeys[Len(e.pKeys)] = <<"*">>

\* terminals with two, one and no dynamic edge above them, below split edges
C28_Witness ==
    /\ \E nd \in Placed : nd[2] = 2 /\ nodes[nd[1]].endpoint # NoEndpoint
    /\ \E nd \in Placed :
          /\ nodes[nd[1]].nType = catchAll
          /\ nodes[nd[1]].endpoint # NoEndpoint
    /\ \E nd \in Placed : nodes[nd[1]].prefix = <<"c">>

\* C29: in every node each literal child is stored under the first byte of
\* its own non-empty prefix; the parameter and the catch-all child of a node
\* are nodes of that kind with an empty prefix, one of each at most
C29_ChildKeys ==
    \A n \in 1..Len(nodes) :
        /\ \A c \in DOMAIN maps[nodes[n].children] :
              LET k == maps[nodes[n].children][c]
              IN  /\ nodes[k].nType = static
                  /\ nodes[k].prefix # <<>>
                  /\ nodes[k].prefix[1] = c
        /\ nodes[n].special[static] = Nil
        /\ \A t \in {param, catchAll} :
              nodes[n].special[t] # Nil =>
                  /\ nodes[nodes[n].special[t]].nType = t
                  /\ nodes[nodes[n].special[t]].prefix = <<>>

\* a truncated node with its tail and the new branch below it, and a node
\* with both a parameter and a catch-all child
C29_Witness ==
    /\ \E n \in 1..Len(nodes) :
          /\ nodes[n].prefix = <<"a", "b">>
          /\ DOMAIN maps[nodes[n].children] = {"c", "d"}
    /\ \E n \in 1..Len(nodes) :
          /\ nodes[n].special[param] # Nil
          /\ nodes[n].special[catchAll] # Nil

----------------------------------------------------------------------------
(* Specification SpecReserved: GET patterns with the bytes ":" and "*" at  *)
(* the start of a segment (parameter, catch-all) and inside literal        *)
(* segments, whose tokens diverge right before such a byte, and GET        *)
(* requests.                                                               *)

ReservedPatterns ==
    {<<"/", "a", ":", "b">>,
     <<"/", "a", "*", "b">>,
     <<"/", "a", "x">>,
     <<"/", "a">>,
     <<"/", "a", "/", ":", "x">>,
     <<"/", "a", "/", "*">>}

ReservedPaths ==
    {<<"/", "a", ":", "b">>,
     <<"/", "a", "*", "b">>,
     <<"/", "a", "x">>,
     <<"/", "a", "/", "v">>}

ReservedRegister == \E p \in ReservedPatterns : Handle(1, mGET, p, <<>>)

ReservedServe == \E p \in ReservedPaths : ServeHTTP(Req("GET", p))

ReservedNext == ReservedRegister \/ ReservedServe

SpecReserved == Init /\ [][ReservedNext]_vars

ReservedBytes == {":", "*"}

\* no node has a literal child stored under ":" or "*"
NoReservedKeys ==
    \A n \in 1..Len(nodes) :
        DOMAIN maps[nodes[n].children] \cap ReservedBytes = {}

AllValid == \A i \in 1..Len(regs) : WellFormed(regs[i].path)

\* C30: after registrations of valid patterns no node has a literal child
\* keyed by ":" or "*", the tail nodes of edge splits included
C30_NoReservedKeys == AllValid => NoReservedKeys

\* a pattern keeps ":" and "*" to the start of its segments
ReservedAtStartOnly(pat) ==
    \A i \in 1..Len(Segs(pat)) :
        \A k \in 2..Len(Segs(pat)[i]) : Segs(pat)[i][k] \notin ReservedBytes

\* C30, amended: after registrations of valid patterns whose literal
\* segments contain neither ":" nor "*", no node has a literal child keyed
\* by ":" or "*", the tail nodes of edge splits included
C30_NoReservedKeysPlain ==
    (AllValid /\ \A i \in 1..Len(regs) : ReservedAtStartOnly(regs[i].path))
        => NoReservedKeys

\* an edge was split below /a, with parameter and catch-all children
C30_Witness ==
    /\ AllValid
    /\ \A i \in 1..Len(regs) : ReservedAtStartOnly(regs[i].path)
    /\ \E n \in 1..Len(nodes) :
          /\ nodes[n].prefix = <<"a">>
          /\ "x" \in DOMAIN maps[nodes[n].children]
          /\ nodes[n].special[param] # Nil
          /\ nodes[n].special[catchAll] # Nil

----------------------------------------------------------------------------
(* C31: values and names at a terminal, under SpecEdgeSplit *)

\* what find returns for the request paths of EdgePaths in the GET trie
Found == [p \in EdgePaths |-> find(Heap, app.trees[mGET], p)]

\* C31: whenever find ends at a node with an endpoint it has collected as
\* many parameter values as the endpoint has names, so the zip of names and
\* values never reads past the values and find does not fault
C31_ValuesMatchNames ==
    \A p \in EdgePaths :
        /\ ~Found[p].fault
        /\ Found[p].e # NoEndpoint
              => Len(Found[p].params) = Len(Found[p].e.pKeys)

\* lookups that end at a terminal with two parameter names and at one with
\* none, the edge above them having been split
C31_Witness ==
    /\ Found[<<"/", "a", "b", "c", "/", "v", "/", "e", "/", "w">>].e # NoEndpoint
    /\ Len(Found[<<"/", "a", "b", "c", "/", "v", "/", "e", "/", "w">>].params) = 2
    /\ Found[<<"/", "a", "b", "d">>].e # NoEndpoint
    /\ Found[<<"/", "a", "b", "d">>].params = <<>>

----------------------------------------------------------------------------
(* Specification SpecValues: GET routes with a parameter at the root and   *)
(* parameters and catch-alls below a literal, in any order, GET requests   *)
(* for every path of at most MaxPathLen bytes over "/", "a" and "v",       *)
(* repeated and trailing slashes included, and for some longer paths that  *)
(* reach the terminals below the literal.                                  *)

MaxPathLen == 3

ValuePatterns ==
    {<<"/", ":", "x">>,
     <<"/", "a", "/", ":", "x">>,
     <<"/", "a", "/", "*">>,
     <<"/", "a", "/", ":", "x", "/", "v", "/", "*">>}

PathBytes == {"/", "a", "v"}

LongPaths ==
    {<<"/", "a", "/", "v">>,
     <<"/", "a", "/", "/", "v">>,
     <<"/", "a", "/", "v", "/">>,
     <<"/", "a", "/", "v", "/", "a">>,
     <<"/", "a", "/", "v", "/", "v", "/", "a", "/">>,
     <<"/", "a", "/", "/", "v", "/", "/", "v", "/", "a">>,
     <<"/", "a", "/", "a", "/", "v", "/", "/", "v", "/", "a">>}

ValuePaths ==
    {p \in UNION {[1..n -> PathBytes] : n \in 1..MaxPathLen} : p[1] = "/"}
        \cup LongPaths

ValueRegister == \E p \in ValuePatterns : Handle(1, mGET, p, <<>>)

ValueServe == \E p \in ValuePaths : ServeHTTP(Req("GET", p))

ValueNext == ValueRegister \/ ValueServe

SpecValues == Init /\ [][ValueNext]_vars

\* what find returns for the path of the request just served
Resolved == find(Heap, app.trees[mGET], last.req.path)

\* the value is a non-empty run of bytes without "/"
IsParamValue(v) == Len(v) > 0 /\ \A i \in 1..Len(v) : v[i] # "/"

\* the value is non-empty and does not begin with "/"
IsCatchAllValue(v) == Len(v) > 0 /\ v[1] # "/"

\* C32: every value the resolver binds to a :name parameter is a non-empty
\* run of bytes containing no "/", and every value it binds to * is
\* non-empty and does not begin with "/"
C32_BoundValues ==
    (last.op = "Serve" /\ last.resp.via = "route")
        => /\ Len(Resolved.params) = Len(Resolved.e.pKeys)
           /\ \A i \in 1..Len(Resolved.e.pKeys) :
                 /\ last.resp.params[Resolved.e.pKeys[i]] \in
                       {Resolved.params[j] : j \in 1..Len(Resolved.params)}
                 /\ IF Resolved.e.pKeys[i] = <<"*">>
                    THEN IsCatchAllValue(Resolved.params[i])
                    ELSE IsParamValue(Resolved.params[i])

\* a request answered by a route that binds a parameter and a catch-all, the
\* catch-all's value containing a "/"
C32_Witness ==
    /\ last.op = "Serve" /\ last.resp.via = "route"
    /\ last.req.path = <<"/", "a", "/", "a", "/", "v", "/", "/", "v", "/", "a">>
    /\ Resolved.e.pKeys = <<<<"x">>, <<"*">>>>
    /\ Resolved.params = <<<<"a">>, <<"v", "/", "a">>>>

----------------------------------------------------------------------------
(* Specification SpecNames: GET routes through one parameter node under    *)
(* different parameter names, registered in any order, and GET requests.   *)

XRoute == <<"/", "a", "/", ":", "x">>
YRoute == <<"/", "a", "/", ":", "y", "/", "b">>
ZRoute == <<"/", "a", "/", ":", "z", "/", "c">>

NamePatterns == {XRoute, YRoute, ZRoute}

NamePaths ==
    {<<"/", "a", "/", "1">>,
     <<"/", "a", "/", "1", "/", "b">>,
     <<"/", "a", "/", "1", "/", "c">>,
     <<"/", "a", "/", "2">>,
     <<"/", "a", "/", "2", "/", "b">>,
     <<"/", "a", "/", "b", "/", "b">>,
     <<"/", "a">>}

NameRegister == \E p \in NamePatterns : Handle(1, mGET, p, <<>>)

NameServe == \E p \in NamePaths : ServeHTTP(Req("GET", p))

NameNext == NameRegister \/ NameServe

SpecNames == Init /\ [][NameNext]_vars

\* (GET, first) has been registered and (GET, second) after it
RegisteredThen(first, second) ==
    \E i, j \in 1..Len(regs) :
        /\ i < j
        /\ regs[i].method = mGET /\ regs[i].path = first
        /\ regs[j].method = mGET /\ regs[j].path = second

\* the request just served was for p and ran the route of pattern full with
\* the parameter map pm
Yields(p, full, pm) ==
    (last.op = "Serve" /\ last.req.path = p)
        => /\ last.resp.via = "route"
           /\ last.resp.fullPath = full
           /\ last.resp.params = pm

\* C34: once (GET, /a/:x) and then (GET, /a/:y/b) are registered, a request
\* to /a/1 runs the first route with {x: "1"} and a request to /a/1/b runs
\* the second with {y: "1"}: each terminal binds its own names
C34_NamesPerTerminal ==
    RegisteredThen(XRoute, YRoute)
        => /\ Yields(<<"/", "a", "/", "1">>, XRoute, <<"x">> :> <<"1">>)
           /\ Yields(<<"/", "a", "/", "1", "/", "b">>, YRoute, <<"y">> :> <<"1">>)

\* /a/1/b has been answered by the second route after both were registered
C34_Witness ==
    /\ RegisteredThen(XRoute, YRoute)
    /\ last.op = "Serve"
    /\ last.req.path = <<"/", "a", "/", "1", "/", "b">>
    /\ last.resp.fullPath = YRoute
    /\ last.resp.params = (<<"y">> :> <<"1">>)

----------------------------------------------------------------------------
(* C35: the WebSocket bucket, under SpecDispatch *)

\* the last request ran the handler of a route registered with Websocket
RanWebsocketRoute ==
    /\ Served
    /\ \E i \in 1..Len(regs) :
          regs[i].method = mWEBSOCKET /\ RanHandler(regs[i].id)

\* C35: a handler registered with Websocket(path) runs only for requests that
\* carry both Connection: upgrade and Upgrade: websocket, whatever their
\* request-line method and other headers
C35_WebsocketOnlyOnHandshake == RanWebsocketRoute => IsUpgrade(last.req)

\* C35 for requests whose request-line method is not the internal key WS:
\* what remains wrong is the Connection header, tested only for presence
C35_WebsocketOnlyOnHandshakeNotWS ==
    (RanWebsocketRoute /\ last.req.method # "WS") => IsUpgrade(last.req)

\* C35 for the other requests, whose request-line method is not WS and whose
\* Connection header is absent or "upgrade": there the code does what the
\* claim says
C35_WebsocketOnlyOnHandshakeElsewhere ==
    ( /\ RanWebsocketRoute
      /\ last.req.method # "WS"
      /\ last.req.connection \in {<<>>, upgrade} ) => IsUpgrade(last.req)

----------------------------------------------------------------------------
(* Specification SpecLookup: GET routes registered while no request is in  *)
(* flight, then up to MaxRequests GET requests served concurrently, each   *)
(* call of find advancing one pass of its loop at a time.                  *)

LookupPatterns ==
    {<<"/", "a", "/", ":", "x", "/", "b">>,
     <<"/", "a", "/", ":", "y">>}

LookupPaths ==
    {<<"/", "a", "/", "1", "/", "b">>,
     <<"/", "a", "/", "2">>}

Quiet == \A k \in 1..MaxRequests : inflight[k].pc = "idle"

LookupRegister == Quiet /\ \E p \in LookupPatterns : Handle(1, mGET, p, <<>>)

LookupBegin == \E k \in 1..MaxRequests, p \in LookupPaths : ServeBegin(k, p)

LookupFind == \E k \in 1..MaxRequests : ServeFind(k)

LookupEnd == \E k \in 1..MaxRequests : ServeEnd(k)

LookupNext == LookupRegister \/ LookupBegin \/ LookupFind \/ LookupEnd

SpecLookup == Init /\ [][LookupNext]_vars

\* every call of find in fl that has returned on heap H returned what a call
\* served alone returns for its path
ResolvedAlone(H, fl) ==
    \A k \in DOMAIN fl :
        fl[k].pc = "done"
            => LET f == find(H, app.trees[mGET], fl[k].path)
               IN  /\ fl[k].e = f.e
                   /\ fl[k].pMap = f.pMap
                   /\ fl[k].fault = f.fault

\* C33: a lookup never writes to the trie, and under every interleaving of
\* concurrent requests issued after the registrations each request gets the
\* endpoint and the parameter map it gets when served alone, never another
\* request's parameters
C33_LookupIsolated ==
    [][ /\ inflight' # inflight => (nodes' = nodes /\ maps' = maps)
        /\ ResolvedAlone(HeapAfter, inflight') ]_vars

\* one request has resolved with x = "1" while another, for x = "2", is
\* inside its loop with its value collected
C33_Witness ==
    /\ inflight[1].pc = "done"
    /\ inflight[1].pMap = (<<"x">> :> <<"1">>)
    /\ inflight[2].pc = "loop"
    /\ inflight[2].params = <<<<"2">>>>

----------------------------------------------------------------------------
(* Specification SpecTerminate: GET routes whose literal tokens share      *)
(* edges, with a parameter and a catch-all below them, registered while no *)
(* request is in flight, and GET requests served one at a time, the call   *)
(* of find advancing one pass of its loop at a time.  A call of find that  *)
(* can take a pass takes it: the goroutine serving the request keeps       *)
(* running.                                                                *)

TerminatePatterns ==
    {<<"/", "a", "b", "c">>,
     <<"/", "a", "b", "/", ":", "x">>,
     <<"/", "a", "b", "d", "/", "*">>}

TerminatePaths ==
    {<<"/", "a", "b", "c">>,
     <<"/", "a", "b", "/", "v">>,
     <<"/", "a", "b", "d", "/", "v", "/", "w">>,
     <<"/", "/", "a", "b", "/", "/", "v", "/">>,
     <<"/", "a", "b", "x">>}

TerminateRegister ==
    Quiet /\ \E p \in TerminatePatterns : Handle(1, mGET, p, <<>>)

TerminateBegin == \E p \in TerminatePaths : ServeBegin(1, p)

TerminateFind == ServeFind(1)

TerminateEnd == ServeEnd(1)

TerminateNext ==
    TerminateRegister \/ TerminateBegin \/ TerminateFind \/ TerminateEnd

SpecTerminate == Init /\ [][TerminateNext]_vars /\ WF_vars(TerminateFind)

\* the pass of find a step made for request k shortened the remaining path
\* or left the loop
PassShortens(k) ==
    (inflight[k].pc = "loop" /\ inflight'[k] # inflight[k])
        => \/ inflight'[k].pc = "done"
           \/ Len(inflight'[k].p) < Len(inflight[k].p)

RECURSIVE staticLoopRun(_, _)
\* the literal loop of insert run from (st, search) one iteration at a time:
\* ok when every iteration left a shorter search string, st the state at the
\* end of the loop or at the first iteration that did not
staticLoopRun(st, search) ==
    IF Len(search) = 0 THEN [ok |-> TRUE, st |-> st]
    ELSE LET r == insertStaticStep(st, search)
         IN  IF Len(r.search) < Len(search)
             THEN staticLoopRun(r.st, r.search)
             ELSE [ok |-> FALSE, st |-> r.st]

RECURSIVE staticLoopsShorten(_, _)
\* insert's walk over the segments segs from st: every literal loop on the
\* way shortens its search string at each iteration and ends in the state
\* insertStatic gives
staticLoopsShorten(st, segs) ==
    IF Len(segs) = 0 THEN TRUE
    ELSE LET seg == Head(segs)
             typ == getSegmentType(seg)
         IN  IF typ = static
             THEN LET run == staticLoopRun(st, seg)
                  IN  /\ run.ok
                      /\ run.st = insertStatic(st, seg)
                      /\ staticLoopsShorten(run.st, Tail(segs))
             ELSE IF typ = param
             THEN staticLoopsShorten(insertSpecial(st, param, From(seg, 1)),
                                     Tail(segs))
             ELSE staticLoopsShorten(insertSpecial(st, catchAll, <<"*">>),
                                     Tail(segs))

\* on heap H, inserting any pattern of TerminatePatterns into the GET trie
\* runs only literal loops that shorten their search string
InsertShortens(H) ==
    \A pat \in TerminatePatterns :
        LET H1 == getTree(H, mGET)
        IN  staticLoopsShorten([nodes |-> H1.nodes, maps |-> H1.maps,
                                cur |-> Len(H1.nodes), pKeys |-> <<>>],
                               splitPath(cleanPath(pat)))

\* C36: find terminates on every trie reachable by registrations: each pass
\* of its loop strictly shortens the remaining path or leaves the loop, so a
\* call that has entered the loop returns; and each iteration of insert's
\* literal loop strictly shortens the remaining search string or ends it
C36_LoopsTerminate ==
    /\ [][PassShortens(1) /\ InsertShortens(HeapAfter)]_vars
    /\ (inflight[1].pc = "loop") ~> (inflight[1].pc = "done")

\* a call of find on a trie with split edges has skipped repeated slashes,
\* matched the literal and collected the parameter, and stands at the head
\* of its loop with the last slash left
C36_Witness ==
    /\ Len(regs) = 3
    /\ inflight[1].pc = "loop"
    /\ inflight[1].path = <<"/", "/", "a", "b", "/", "/", "v", "/">>
    /\ inflight[1].params = <<<<"v">>>>
    /\ inflight[1].p = <<>>

=============================================================================
